---- MODULE Spec2Model ----
(***************************************************************************)
(* Session / Run persistence and invocation dispatch of kagent.            *)
(*                                                                         *)
(* The relational store is modelled as three tables (sessions, runs,       *)
(* messages).  Every model of the store embeds gorm.Model, whose DeletedAt *)
(* column makes Delete a soft delete: the row stays in the table with      *)
(* deleted_at set and is filtered out of every later query.                *)
(*                                                                         *)
(* Each HTTP request is served by its own goroutine.  Handlers that talk   *)
(* to the store once are one action; HandleSessionInvokeDB, which makes a  *)
(* lookup, an insert, an external call and an update, is one action per    *)
(* store round trip so that other requests interleave with it.             *)
(*                                                                         *)
(* The response a handler writes is held in `last` until it is delivered;  *)
(* no handler step is taken while a response is pending.  This orders the  *)
(* deliveries only: responses do not touch the store, so every             *)
(* interleaving of store operations remains.                               *)
(***************************************************************************)
EXTENDS Integers, Sequences, FiniteSets, TLC

\* ---------------------------------------------------------------- bounds
MaxSessions == 2
MaxRuns == 2
MaxMessages == 1
MaxToolServers == 2
MaxTools == 2
MaxListRows == 3
MaxTime == 2
MaxTeams == 1
MaxPairs == 2
MaxEvents == 2
MaxData == 1
ChanCap == 1
MaxCallers == 2
maxHistoryLength == 2
MaxMessageIDs == 3
MaxStores == 4

\* ------------------------------------------------------- request inputs
Users == {"u1", "u2"}
NoUser == ""
Names == {"a", "b"}
\* The name the i-th create request carries, and the task text the r-th
\* concurrent invoke request carries.
NameOf(i) == IF i % 2 = 1 THEN "a" ELSE "b"
TaskOf(r) == IF r % 2 = 1 THEN "t1" ELSE "t2"
ErrorStrings == {"agent unavailable"}
InvokeIDs == 1..MaxRuns
SessionIDs == 1..MaxSessions

\* --------------------------------------------------------- run statuses
RunStatusCreated == "created"
RunStatusActive == "active"
RunStatusComplete == "complete"
RunStatusError == "error"
RunStatusStopped == "stopped"
RunStatuses ==
  {RunStatusCreated, RunStatusActive, RunStatusComplete, RunStatusError, RunStatusStopped}

\* ------------------------------------------------------- response kinds
\* The handlers answer through errors.NewBadRequestError (400),
\* errors.NewNotFoundError (404), errors.NewInternalServerError (500) or
\* RespondWithJSON with http.StatusOK / http.StatusCreated.
RespNone == "none"
RespOK == "OK"
RespCreated == "Created"
RespBadRequest == "BadRequest"
RespNotFound == "NotFound"
RespInternalServerError == "InternalServerError"

\* ------------------------------------------------------------- values
\* A nil *string (Run.ErrorMessage) and a nil error.
NilString == "<nil>"
NoError == "<nil>"

\* JSONMap: a set of <<key, value>> pairs.
EmptyJSONMap == {}

\* The value InvokeSession returns: nil, or a result struct.
NilResult == [IsNil |-> TRUE, Usage |-> "", Duration |-> ""]
Results == {NilResult, [IsNil |-> FALSE, Usage |-> "12 tokens", Duration |-> "1s"]}

NoSession == [ID |-> 0, UserID |-> NoUser, Name |-> "", Deleted |-> FALSE]
NoRun ==
  [ID |-> 0, UserID |-> NoUser, SessionID |-> 0, Status |-> RunStatusCreated,
   Task |-> EmptyJSONMap, TeamResult |-> EmptyJSONMap, ErrorMessage |-> NilString]

VARIABLES sessions, runs, messages, inv, last

\* The tool registry: the toolserver and tool tables, and the outcome of the
\* most recent registry operation.
VARIABLES toolServers, tools, tlast

\* A table of rows with a created_at column, read by the List operations,
\* and the most recent listing.
VARIABLES ltable, listing

\* The team table, and the most recent team request with its response.
VARIABLES teams, teamLast

\* The streaming invoke handler: its position and response status, the
\* client's event channel, the events the client has sent, the event the
\* handler holds, how many frames it has written, and the bytes written to
\* the response.
VARIABLES streamPc, streamCode, ch, chClosed, sent, event, relayed, written

\* The REST client: the response the server sent, and what doRequest returned for it.
VARIABLES httpResp, clientResult

\* The database manager: its init lock, which tables exist, and the Initialize and Reset calls in progress.
VARIABLES initLock, tables, calls

\* The A2A storage: the messages table, each conversation's message-ID list
\* (empty when the conversation has no row), the IDs stored per context in
\* call order, and the most recent StoreMessage call.
VARIABLES storedMessages, storedConversations, storeLog, storeLast
\* tools table of the database client and its last CreateTool/RefreshToolsForServer call
VARIABLES toolRows, refreshLast
\* last call of an A2A task handler built by makeHandlerForTeam
VARIABLES a2aLast, invokeTasks
\* kagent CLI: runTask and waitForTaskResult polling an A2A task
VARIABLES waitPc, waitCtx, taskState, polls, waitRet

sessionVars == <<sessions, runs, messages, inv, last>>
toolVars == <<toolServers, tools, tlast>>
listVars == <<ltable, listing>>
teamVars == <<teams, teamLast>>
streamVars == <<streamPc, streamCode, ch, chClosed, sent, event, relayed, written>>
clientVars == <<httpResp, clientResult>>
managerVars == <<initLock, tables, calls>>
storageVars == <<storedMessages, storedConversations, storeLog, storeLast>>
refreshVars == <<toolRows, refreshLast>>
a2aVars == <<a2aLast, invokeTasks>>
waitVars == <<waitPc, waitCtx, taskState, polls, waitRet>>

\* What the operations of each group leave alone.
OutsideSessions == <<toolVars, listVars, teamVars, streamVars, clientVars, managerVars, storageVars, refreshVars, a2aVars, waitVars>>
OutsideTools == <<sessionVars, listVars, teamVars, streamVars, clientVars, managerVars, storageVars, refreshVars, a2aVars, waitVars>>
OutsideLists == <<sessionVars, toolVars, teamVars, streamVars, clientVars, managerVars, storageVars, refreshVars, a2aVars, waitVars>>
OutsideTeams == <<sessionVars, toolVars, listVars, streamVars, clientVars, managerVars, storageVars, refreshVars, a2aVars, waitVars>>
OutsideStream == <<sessionVars, toolVars, listVars, teamVars, clientVars, managerVars, storageVars, refreshVars, a2aVars, waitVars>>
OutsideClient == <<sessionVars, toolVars, listVars, teamVars, streamVars, managerVars, storageVars, refreshVars, a2aVars, waitVars>>
OutsideManager == <<sessionVars, toolVars, listVars, teamVars, streamVars, clientVars, storageVars, refreshVars, a2aVars, waitVars>>
OutsideStorage == <<sessionVars, toolVars, listVars, teamVars, streamVars, clientVars, managerVars, refreshVars, a2aVars, waitVars>>
OutsideRefresh == <<sessionVars, toolVars, listVars, teamVars, streamVars, clientVars, managerVars, storageVars, a2aVars, waitVars>>
OutsideA2A == <<sessionVars, toolVars, listVars, teamVars, streamVars, clientVars, managerVars, storageVars, refreshVars, waitVars>>
OutsideWait == <<sessionVars, toolVars, listVars, teamVars, streamVars, clientVars, managerVars, storageVars, refreshVars, a2aVars>>

vars == <<sessionVars, toolVars, listVars, teamVars, streamVars, clientVars, managerVars, storageVars, refreshVars, a2aVars, waitVars>>

\* ---------------------------------------------------- persistence layer
\* gorm.Model: ID is an auto-increment primary key.  Rows are never
\* physically removed, so the next key is the table length plus one.
NextID(rows) == Len(rows) + 1

\* Rows a query sees: gorm adds "deleted_at IS NULL" for soft-delete models.
LiveSessions == {i \in DOMAIN sessions : ~sessions[i].Deleted}

\* s.db.Where("id = ? AND user_id = ?").First(&session)
MatchSessionByID(sessionID, userID) ==
  {i \in LiveSessions : sessions[i].ID = sessionID /\ sessions[i].UserID = userID}

\* Session.Get(Clause{name}, Clause{user_id}) -> query.First(&model)
MatchSessionByName(name, userID) ==
  {i \in LiveSessions : sessions[i].Name = name /\ sessions[i].UserID = userID}

\* First orders by primary key.
First(idx) == CHOOSE i \in idx : \A j \in idx : i <= j

\* GetSession: the row, or NoSession with an error when the driver fails or
\* no row matches.
GetSession_ignoreError(sessionID, userID, dbOK) ==
  IF dbOK /\ MatchSessionByID(sessionID, userID) # {}
  THEN [err |-> FALSE, session |-> sessions[First(MatchSessionByID(sessionID, userID))]]
  ELSE [err |-> FALSE, session |-> NoSession]

GetSession(sessionID, userID, dbOK) ==
  IF dbOK /\ MatchSessionByID(sessionID, userID) # {}
  THEN [err |-> FALSE, session |-> sessions[First(MatchSessionByID(sessionID, userID))]]
  ELSE [err |-> TRUE, session |-> NoSession]

GetSessionByName(name, userID, dbOK) ==
  IF dbOK /\ MatchSessionByName(name, userID) # {}
  THEN [err |-> FALSE, session |-> sessions[First(MatchSessionByName(name, userID))]]
  ELSE [err |-> TRUE, session |-> NoSession]

\* CreateSession: s.db.Create(session)
CreateSession(rows, session) == Append(rows, [session EXCEPT !.ID = NextID(rows)])

\* DeleteSession: Where("id = ? AND user_id = ?").Delete(&Session{}) sets
\* deleted_at on the matching live rows; no other table is written.
DeleteSession(rows, sessionID, userID) ==
  [i \in DOMAIN rows |->
     IF rows[i].ID = sessionID /\ rows[i].UserID = userID /\ ~rows[i].Deleted
     THEN [rows[i] EXCEPT !.Deleted = TRUE]
     ELSE rows[i]]

\* RowsAffected of that delete.
DeleteSessionRowsAffected(sessionID, userID) ==
  Cardinality(MatchSessionByID(sessionID, userID))

\* CreateRun: s.db.Create(run); the key is written back into the struct.
CreatedRun_fixedID(rows, run) == [run EXCEPT !.ID = 1]

CreatedRun(rows, run) == [run EXCEPT !.ID = NextID(rows)]

CreateRun_noInsert(rows, run) == rows

CreateRun(rows, run) == Append(rows, CreatedRun(rows, run))

\* UpdateRun: s.db.Save(run) writes every column of the row with run's key.
UpdateRun_insert(rows, run) == Append(rows, run)

UpdateRun_bySession(rows, run) ==
  [i \in DOMAIN rows |->
     IF rows[i].SessionID = run.SessionID THEN [run EXCEPT !.ID = rows[i].ID] ELSE rows[i]]

UpdateRun(rows, run) ==
  [i \in DOMAIN rows |-> IF rows[i].ID = run.ID THEN run ELSE rows[i]]

\* GetSessionRuns: verify the session, then Where("session_id = ?") on runs.
RunsOfSession(sessionID) ==
  {i \in DOMAIN runs : runs[i].SessionID = sessionID}

GetSessionRuns(sessionID, userID, dbOK) ==
  IF dbOK /\ MatchSessionByID(sessionID, userID) # {}
  THEN [err |-> FALSE, runs |-> {runs[i].ID : i \in RunsOfSession(sessionID)}]
  ELSE [err |-> TRUE, runs |-> {}]

\* GetRun: Where("id = ? AND user_id = ?").First(&run)
GetRun(runID, userID) ==
  {i \in DOMAIN runs : runs[i].ID = runID /\ runs[i].UserID = userID}

\* GetMessagesForRun: Where("run_id = ?")
GetMessagesForRun(runID) == {i \in DOMAIN messages : messages[i].RunID = runID}

\* CreateMessage: s.db.Create(message)
CreateMessage(rows, runID) == Append(rows, [ID |-> NextID(rows), RunID |-> runID])

\* ------------------------------------------------------ session handlers
\* HandleCreateSessionDB: decode the body, require user_id, insert.
\* insert: whether Session.Create is called at all; stored: whether it wrote.
CreateSessionOutcome_noUserCheck(bodyOK, userID, dbOK) ==
  IF ~bodyOK THEN [code |-> RespBadRequest, insert |-> FALSE, stored |-> FALSE]
  ELSE IF ~dbOK THEN [code |-> RespInternalServerError, insert |-> TRUE, stored |-> FALSE]
  ELSE [code |-> RespCreated, insert |-> TRUE, stored |-> TRUE]

CreateSessionOutcome(bodyOK, userID, dbOK) ==
  IF ~bodyOK THEN [code |-> RespBadRequest, insert |-> FALSE, stored |-> FALSE]
  ELSE IF userID = NoUser THEN [code |-> RespBadRequest, insert |-> FALSE, stored |-> FALSE]
  ELSE IF ~dbOK THEN [code |-> RespInternalServerError, insert |-> TRUE, stored |-> FALSE]
  ELSE [code |-> RespCreated, insert |-> TRUE, stored |-> TRUE]

\* HandleGetSessionDB: path parameter, user ID, then every error of the
\* lookup is answered with NewNotFoundError.
GetSessionOutcome_internalError(pathOK, name, userID, dbOK) ==
  IF ~pathOK \/ userID = NoUser THEN RespBadRequest
  ELSE IF GetSessionByName(name, userID, dbOK).err THEN RespInternalServerError
  ELSE RespOK

GetSessionOutcome(pathOK, name, userID, dbOK) ==
  IF ~pathOK THEN RespBadRequest
  ELSE IF userID = NoUser THEN RespBadRequest
  ELSE IF GetSessionByName(name, userID, dbOK).err THEN RespNotFound
  ELSE RespOK

\* HandleDeleteSessionDB: user ID, path parameter, then every error of the
\* delete (driver failure, or no row affected) is answered with
\* NewInternalServerError.
DeleteSessionOutcome(pathOK, sessionID, userID, dbOK) ==
  IF userID = NoUser THEN [code |-> RespBadRequest, delete |-> FALSE]
  ELSE IF ~pathOK THEN [code |-> RespBadRequest, delete |-> FALSE]
  ELSE IF ~dbOK THEN [code |-> RespInternalServerError, delete |-> FALSE]
  ELSE IF DeleteSessionRowsAffected(sessionID, userID) = 0
       THEN [code |-> RespInternalServerError, delete |-> FALSE]
  ELSE [code |-> RespOK, delete |-> TRUE]

\* HandleListSessionRunsDB: path parameter, user ID, then the runs of the
\* session, each with its messages; a run whose messages cannot be loaded
\* (msgOK false) is listed with none.
MessagesOfRuns(runIDs) == {messages[i].ID : i \in UNION {GetMessagesForRun(id) : id \in runIDs}}

ListSessionRunsOutcome_swallow(pathOK, sessionID, userID, dbOK, msgOK) ==
  IF ~pathOK \/ userID = NoUser THEN [code |-> RespBadRequest, runs |-> {}, messages |-> {}]
  ELSE [code |-> RespOK, runs |-> GetSessionRuns(sessionID, userID, dbOK).runs,
        messages |-> {}]

ListSessionRunsOutcome(pathOK, sessionID, userID, dbOK, msgOK) ==
  IF ~pathOK THEN [code |-> RespBadRequest, runs |-> {}, messages |-> {}]
  ELSE IF userID = NoUser THEN [code |-> RespBadRequest, runs |-> {}, messages |-> {}]
  ELSE IF GetSessionRuns(sessionID, userID, dbOK).err
       THEN [code |-> RespInternalServerError, runs |-> {}, messages |-> {}]
  ELSE [code |-> RespOK, runs |-> GetSessionRuns(sessionID, userID, dbOK).runs,
        messages |-> IF msgOK
                     THEN MessagesOfRuns(GetSessionRuns(sessionID, userID, dbOK).runs)
                     ELSE {}]

\* ------------------------------------------------- HandleSessionInvokeDB
\* Path parameter, user ID and body are checked in this order.
InvokeValidation(pathOK, userID, bodyOK) ==
  IF ~pathOK THEN RespBadRequest
  ELSE IF userID = NoUser THEN RespBadRequest
  ELSE IF ~bodyOK THEN RespBadRequest
  ELSE RespNone

\* run := &database.Run{...}
NewRun_active(session, userID, task) ==
  [ID |-> 0, UserID |-> userID, SessionID |-> session.ID, Status |-> RunStatusActive,
   Task |-> {<<"content", task>>, <<"source", "user">>},
   TeamResult |-> EmptyJSONMap, ErrorMessage |-> NilString]

NewRun(session, userID, task) ==
  [ID |-> 0, UserID |-> userID, SessionID |-> session.ID, Status |-> RunStatusCreated,
   Task |-> {<<"content", task>>, <<"source", "user">>},
   TeamResult |-> EmptyJSONMap, ErrorMessage |-> NilString]

\* json.Marshal(result) followed by json.Unmarshal into a map: the struct's
\* fields under their json keys.
ToJSONMap(result) == {<<"usage", result.Usage>>, <<"duration", result.Duration>>}

\* The error branch: run.Status = RunStatusError; run.ErrorMessage = &errMsg
FailedRun_stopped(run, errMsg) ==
  [run EXCEPT !.Status = RunStatusStopped, !.ErrorMessage = errMsg]

FailedRun_noMessage(run, errMsg) == [run EXCEPT !.Status = RunStatusError]

FailedRun(run, errMsg) ==
  [run EXCEPT !.Status = RunStatusError, !.ErrorMessage = errMsg]

\* The success branch: run.Status = RunStatusComplete; TeamResult is set only
\* when the result is not nil.
CompletedRun_noResult(run, result) == [run EXCEPT !.Status = RunStatusComplete]

CompletedRun(run, result) ==
  [run EXCEPT !.Status = RunStatusComplete,
              !.TeamResult = IF result.IsNil THEN run.TeamResult ELSE ToJSONMap(result)]

\* ------------------------------------------------------------------ state
\* Requests.  pathOK / bodyOK: whether the path parameter parses and the
\* body decodes; dbOK: whether the request's round trips to the store
\* succeed.  A request that fails a check carries fixed values for the
\* inputs its handler never reads.
CreateRequests ==
  {[bodyOK |-> FALSE, userID |-> NoUser, dbOK |-> TRUE],
   [bodyOK |-> TRUE, userID |-> NoUser, dbOK |-> TRUE]}
    \cup [bodyOK : {TRUE}, userID : Users, dbOK : BOOLEAN]

KeyedRequests(keys) ==
  {[pathOK |-> FALSE, bodyOK |-> TRUE, userID |-> "u1", key |-> k, dbOK |-> TRUE] :
     k \in {CHOOSE k \in keys : TRUE}}
    \cup {[pathOK |-> TRUE, bodyOK |-> TRUE, userID |-> NoUser, key |-> k, dbOK |-> TRUE] :
            k \in {CHOOSE k \in keys : TRUE}}
    \cup [pathOK : {TRUE}, bodyOK : {TRUE}, userID : Users, key : keys, dbOK : BOOLEAN]

InvokeRequests ==
  KeyedRequests(SessionIDs)
    \cup {[pathOK |-> TRUE, bodyOK |-> FALSE, userID |-> "u1", key |-> k, dbOK |-> TRUE] :
            k \in {CHOOSE k \in SessionIDs : TRUE}}

\* inv[r]: the locals of the r-th concurrently running invoke handler, and
\* how many rows its own store calls have added to the runs table.
IdleInvoke ==
  [pc |-> "idle", sessionID |-> 0, userID |-> NoUser, task |-> "", run |-> NoRun,
   inserted |-> 0]

\* last: the most recently completed request and its response.
\*   bodyOK   whether the request body decoded
\*   dbOK     whether the store was working while the request was handled
\*   existed  whether the addressed session was visible to the user
\*   dbCalls  how many store calls the handler issued
\*   data     the run IDs a list-runs response carried
\*   msgOK    whether the messages of the listed runs could be loaded
\*   messages the message IDs a list-runs response carried
\*   runID, inserted, called, failed, saved, err, result: the invoke
\*   request's run, how many rows it inserted, whether the external call was
\*   issued, whether it failed, whether the final update was written, and
\*   what the call returned.
\*   logged   whether the handler wrote a store error to its log
NoResponse ==
  [op |-> "none", bodyOK |-> TRUE, dbOK |-> TRUE, userID |-> NoUser, sessionID |-> 0, existed |-> FALSE,
   code |-> RespNone, dbCalls |-> 0, data |-> {}, msgOK |-> TRUE, messages |-> {},
   runID |-> 0, inserted |-> 0, called |-> FALSE, failed |-> FALSE, saved |-> FALSE,
   logged |-> FALSE, err |-> NoError, result |-> NilResult]

\* Errors of the store: gorm.ErrRecordNotFound, and any failure of the driver.
ErrRecordNotFound == "record not found"
ErrDriver == "driver error"

\* tlast: op, the keys of the servers it deleted, whether it succeeded, how
\* many rows its filter clauses matched, and the error it returned.
NoToolOp == [op |-> "none", servers |-> {}, ok |-> FALSE, matched |-> 0, err |-> NoError]

SessionsInit ==
  /\ sessions = <<>>
  /\ runs = <<>>
  /\ messages = <<>>
  /\ inv = [r \in InvokeIDs |-> IdleInvoke]
  /\ last = NoResponse

ToolsInit ==
  /\ toolServers = <<>>
  /\ tools = <<>>
  /\ tlast = NoToolOp

\* listing: the operation and the keys of the rows it returned, in order.
NoListing == [op |-> "none", key |-> NoUser, rows |-> <<>>]

ListsInit ==
  /\ ltable = <<>>
  /\ listing = NoListing

\* teamLast: the most recently completed team request and its response.
\*   ref      the agent reference the request names (body or path)
\*   posted   the component document the request body carried
\*   returned the component document the response body carried
NoTeamResponse ==
  [op |-> "none", pathOK |-> TRUE, bodyOK |-> TRUE, dbOK |-> TRUE, userID |-> NoUser,
   ref |-> "", posted |-> <<>>, code |-> RespNone, dbCalls |-> 0, returned |-> <<>>]

TeamsInit ==
  /\ teams = <<>>
  /\ teamLast = NoTeamResponse

\* Context IDs of A2A messages; NilContext is a message without one.
ContextIDs == {"c1", "c2"}
NilContext == "nil"

NoRefresh == [op |-> "none", serverName |-> "", tools |-> <<>>, err |-> FALSE]

RefreshInit ==
  /\ toolRows = <<>>
  /\ refreshLast = NoRefresh

NoTask ==
  [handler |-> "none", task |-> "", sessionID |-> "<nil>", invoked |-> FALSE,
   invokeFailed |-> FALSE, out |-> "", err |-> "<nil>"]

A2AInit ==
  /\ a2aLast = NoTask
  /\ invokeTasks = <<>>

NoReturn == [task |-> "<nil>", err |-> "<nil>"]

WaitInit ==
  /\ waitPc = "idle"
  /\ waitCtx = "live"
  /\ taskState = "none"
  /\ polls = 0
  /\ waitRet = NoReturn

NoStore == [op |-> "none", MessageID |-> 0, ContextID |-> NilContext, err |-> FALSE]

StorageInit ==
  /\ storedMessages = {}
  /\ storedConversations = [c \in ContextIDs |-> <<>>]
  /\ storeLog = [c \in ContextIDs |-> <<>>]
  /\ storeLast = NoStore

\* A goroutine that is not inside Initialize or Reset.
\*   overlapped  another call was in progress at some moment of this call
\*   dbFailed    a schema operation of this call failed
NoCall ==
  [op |-> "none", recreateTables |-> FALSE, pc |-> "idle", ret |-> "none",
   overlapped |-> FALSE, dbFailed |-> FALSE]

ManagerInit ==
  /\ initLock = FALSE
  /\ tables = "none"
  /\ calls = [c \in 1..MaxCallers |-> NoCall]

\* No response received yet, and no call returned yet.
NoHTTPResponse == [sent |-> FALSE, transportOK |-> TRUE, StatusCode |-> 0, body |-> <<>>]
NoResult == [returned |-> FALSE, resp |-> "nil", err |-> "nil", StatusCode |-> 0,
             Message |-> "", Body |-> <<>>]

ClientInit ==
  /\ httpResp = NoHTTPResponse
  /\ clientResult = NoResult

\* The zero value of the loop variable of "for event := range ch".
NoEvent == [Event |-> "", Data |-> <<>>]

StreamInit ==
  /\ streamPc = "idle"
  /\ streamCode = RespNone
  /\ ch = <<>>
  /\ chClosed = FALSE
  /\ sent = <<>>
  /\ event = NoEvent
  /\ relayed = 0
  /\ written = <<>>

Init ==
  /\ SessionsInit
  /\ WaitInit
  /\ A2AInit
  /\ RefreshInit
  /\ StorageInit
  /\ ManagerInit
  /\ ClientInit
  /\ StreamInit
  /\ TeamsInit
  /\ ToolsInit
  /\ ListsInit

\* ---------------------------------------------------------------- actions
\* POST /api/sessions
HandleCreateSessionDB ==
  \E q \in CreateRequests :
    LET userID == q.userID
        out == CreateSessionOutcome(q.bodyOK, userID, q.dbOK) IN
    /\ last = NoResponse
    /\ out.stored => Len(sessions) < MaxSessions
    /\ sessions' =
         IF out.stored
         THEN CreateSession(sessions, [NoSession EXCEPT !.UserID = userID,
                                                       !.Name = NameOf(NextID(sessions))])
         ELSE sessions
    /\ last' = [NoResponse EXCEPT !.op = "create", !.bodyOK = q.bodyOK, !.dbOK = q.dbOK,
                                  !.userID = userID, !.code = out.code,
                                  !.dbCalls = IF out.insert THEN 1 ELSE 0]
    /\ UNCHANGED <<runs, messages, inv, OutsideSessions>>

\* GET /api/sessions/{session_name}
HandleGetSessionDB ==
  \E q \in KeyedRequests(Names) :
    /\ last = NoResponse
    /\ last' = [NoResponse EXCEPT
                  !.op = "get", !.dbOK = q.dbOK, !.userID = q.userID,
                  !.existed = q.pathOK /\ MatchSessionByName(q.key, q.userID) # {},
                  !.code = GetSessionOutcome(q.pathOK, q.key, q.userID, q.dbOK),
                  !.dbCalls = IF q.pathOK /\ q.userID # NoUser THEN 1 ELSE 0]
    /\ UNCHANGED <<sessions, runs, messages, inv, OutsideSessions>>

\* DELETE /api/sessions/{sessionID}
HandleDeleteSessionDB ==
  \E q \in KeyedRequests(SessionIDs) :
    LET userID == q.userID
        sessionID == q.key
        out == DeleteSessionOutcome(q.pathOK, sessionID, userID, q.dbOK) IN
    /\ last = NoResponse
    /\ sessions' = IF out.delete THEN DeleteSession(sessions, sessionID, userID) ELSE sessions
    /\ last' = [NoResponse EXCEPT
                  !.op = "delete", !.dbOK = q.dbOK, !.userID = userID,
                  !.sessionID = IF q.pathOK THEN sessionID ELSE 0,
                  !.existed = q.pathOK /\ MatchSessionByID(sessionID, userID) # {},
                  !.code = out.code,
                  !.dbCalls = IF q.pathOK /\ userID # NoUser THEN 1 ELSE 0]
    /\ UNCHANGED <<runs, messages, inv, OutsideSessions>>

\* GET /api/sessions/{sessionID}/runs
HandleListSessionRunsDB ==
  \E q \in KeyedRequests(SessionIDs), msgOK \in BOOLEAN :
    LET userID == q.userID
        sessionID == q.key
        out == ListSessionRunsOutcome(q.pathOK, sessionID, userID, q.dbOK, msgOK) IN
    /\ last = NoResponse
    /\ ~msgOK => q.pathOK /\ q.dbOK /\ GetSessionRuns(sessionID, userID, q.dbOK).runs # {}
    /\ last' = [NoResponse EXCEPT
                  !.op = "list_runs", !.dbOK = q.dbOK, !.userID = userID,
                  !.sessionID = IF q.pathOK THEN sessionID ELSE 0,
                  !.existed = q.pathOK /\ MatchSessionByID(sessionID, userID) # {},
                  !.code = out.code,
                  !.dbCalls = IF q.pathOK /\ userID # NoUser THEN 1 ELSE 0,
                  !.msgOK = msgOK, !.logged = ~msgOK, !.data = out.runs,
                  !.messages = out.messages]
    /\ UNCHANGED <<sessions, runs, messages, inv, OutsideSessions>>

\* A message is stored for a run while the run executes.
StoreMessage(r) ==
  /\ last = NoResponse
  /\ inv[r].pc = "calling"
  /\ Len(messages) < MaxMessages
  /\ messages' = CreateMessage(messages, inv[r].run.ID)
  /\ UNCHANGED <<sessions, runs, inv, last, OutsideSessions>>

\* The response of the completed request reaches its client.
DeliverResponse ==
  /\ last # NoResponse
  /\ last' = NoResponse
  /\ UNCHANGED <<sessions, runs, messages, inv, OutsideSessions>>

\* Requests that passed the session lookup and may still insert a run.
Admitted == {r \in InvokeIDs : inv[r].pc = "got_session"}

\* POST /api/sessions/{sessionID}/invoke, up to the session lookup.  A
\* rejected request is answered at once.
InvokeGetSession(r) ==
  /\ last = NoResponse
  /\ inv[r].pc = "idle"
  /\ \A q \in InvokeIDs : q < r => inv[q].pc # "idle"
  /\ \E q \in InvokeRequests :
       LET userID == q.userID
           sessionID == q.key
           v == InvokeValidation(q.pathOK, userID, q.bodyOK)
           got == GetSession(sessionID, userID, q.dbOK)
           rejected == v # RespNone \/ got.err
           resp == [NoResponse EXCEPT
                      !.op = "invoke", !.dbOK = q.dbOK, !.userID = userID,
                      !.sessionID = IF q.pathOK THEN sessionID ELSE 0,
                      !.existed = q.pathOK /\ MatchSessionByID(sessionID, userID) # {},
                      !.code = IF v # RespNone THEN v ELSE RespNotFound,
                      !.dbCalls = IF v # RespNone THEN 0 ELSE 1]
       IN /\ ~rejected => Len(runs) + Cardinality(Admitted) < MaxRuns
          /\ inv' = [inv EXCEPT ![r] =
                       IF rejected THEN IdleInvoke
                       ELSE [IdleInvoke EXCEPT !.pc = "got_session", !.userID = userID,
                                               !.sessionID = got.session.ID,
                                               !.task = TaskOf(r)]]
          /\ last' = IF rejected THEN resp ELSE last
  /\ UNCHANGED <<sessions, runs, messages, OutsideSessions>>

\* The run is built and inserted; a failed insert is answered with 500.
InvokeCreateRun(r) ==
  /\ last = NoResponse
  /\ inv[r].pc = "got_session"
  /\ \E dbOK \in BOOLEAN :
       LET run == NewRun([NoSession EXCEPT !.ID = inv[r].sessionID], inv[r].userID,
                         inv[r].task)
       IN IF dbOK
          THEN /\ runs' = CreateRun(runs, run)
               /\ inv' = [inv EXCEPT ![r].pc = "run_created",
                                     ![r].run = CreatedRun(runs, run),
                                     ![r].inserted = Len(CreateRun(runs, run)) - Len(runs)]
               /\ last' = last
          ELSE /\ runs' = runs
               /\ inv' = [inv EXCEPT ![r] = IdleInvoke]
               /\ last' = [NoResponse EXCEPT
                             !.op = "invoke", !.dbOK = FALSE, !.userID = inv[r].userID,
                             !.sessionID = inv[r].sessionID, !.existed = TRUE,
                             !.code = RespInternalServerError, !.dbCalls = 2]
  /\ UNCHANGED <<sessions, messages, OutsideSessions>>

\* h.AutogenClient.InvokeSession is called.
InvokeCallAgent(r) ==
  /\ last = NoResponse
  /\ inv[r].pc = "run_created"
  /\ inv' = [inv EXCEPT ![r].pc = "calling"]
  /\ UNCHANGED <<sessions, runs, messages, last, OutsideSessions>>

\* Whether the handler logs the error of the run update that follows the
\* external call: the failure branch calls UpdateRun as a bare statement,
\* the success branch passes the error to log.Error.
LogsUpdateError_always(callFailed, dbOK) == ~dbOK

LogsUpdateError(callFailed, dbOK) == ~callFailed /\ ~dbOK

\* Rows of the runs table that this request's insert produced.
RowsOf(rows, runID) == {i \in DOMAIN rows : rows[i].ID = runID}

\* The call returns an error: the run is marked failed, the update's own
\* error is dropped, and the request is answered with 500.
InvokeAgentFails(r) ==
  /\ last = NoResponse
  /\ inv[r].pc = "calling"
  /\ \E errMsg \in ErrorStrings, dbOK \in BOOLEAN :
       LET run == FailedRun(inv[r].run, errMsg) IN
       /\ runs' = IF dbOK THEN UpdateRun(runs, run) ELSE runs
       /\ last' = [NoResponse EXCEPT
                     !.op = "invoke", !.dbOK = dbOK, !.userID = inv[r].userID,
                     !.sessionID = inv[r].sessionID, !.existed = TRUE,
                     !.code = RespInternalServerError, !.dbCalls = 3,
                     !.runID = inv[r].run.ID, !.called = TRUE, !.failed = TRUE,
                     !.inserted = inv[r].inserted + Len(runs') - Len(runs),
                     !.saved = dbOK, !.logged = LogsUpdateError(TRUE, dbOK),
                     !.err = errMsg]
  /\ inv' = [inv EXCEPT ![r] = IdleInvoke]
  /\ UNCHANGED <<sessions, messages, OutsideSessions>>

\* The call returns a result: the run is marked complete, the update's own
\* error is only logged, and the request is answered with 200.
InvokeAgentSucceeds(r) ==
  /\ last = NoResponse
  /\ inv[r].pc = "calling"
  /\ \E result \in Results, dbOK \in BOOLEAN :
       LET run == CompletedRun(inv[r].run, result) IN
       /\ runs' = IF dbOK THEN UpdateRun(runs, run) ELSE runs
       /\ last' = [NoResponse EXCEPT
                     !.op = "invoke", !.dbOK = dbOK, !.userID = inv[r].userID,
                     !.sessionID = inv[r].sessionID, !.existed = TRUE,
                     !.code = RespOK, !.dbCalls = 3,
                     !.runID = inv[r].run.ID, !.called = TRUE,
                     !.inserted = inv[r].inserted + Len(runs') - Len(runs),
                     !.saved = dbOK, !.logged = LogsUpdateError(FALSE, dbOK),
                     !.result = result]
  /\ inv' = [inv EXCEPT ![r] = IdleInvoke]
  /\ UNCHANGED <<sessions, messages, OutsideSessions>>

Next ==
  \/ HandleCreateSessionDB
  \/ HandleGetSessionDB
  \/ HandleDeleteSessionDB
  \/ HandleListSessionRunsDB
  \/ DeliverResponse
  \/ \E r \in InvokeIDs : StoreMessage(r)
  \/ \E r \in InvokeIDs : InvokeGetSession(r)
  \/ \E r \in InvokeIDs : InvokeCreateRun(r)
  \/ \E r \in InvokeIDs : InvokeCallAgent(r)
  \/ \E r \in InvokeIDs : InvokeAgentFails(r)
  \/ \E r \in InvokeIDs : InvokeAgentSucceeds(r)

Spec == Init /\ [][Next]_vars

\* ---------------------------------------------------------------- claims
TerminalStatuses == {RunStatusComplete, RunStatusError}

\* The invoke request that has just been answered after its external call.
InvokeReturned == last.op = "invoke" /\ last.called

\* C1: an invoke request whose external call was issued has added exactly
\* one row to the runs table when it is answered, whether the call failed or
\* succeeded, and exactly one row carries its run ID; an invoke request
\* answered before the call has added none; a request in flight past its
\* insert has added exactly one.
C1_OneRunPerInvoke ==
  /\ last.op = "invoke" =>
       /\ last.inserted = IF last.called THEN 1 ELSE 0
       /\ last.called => Cardinality(RowsOf(runs, last.runID)) = 1
  /\ \A r \in InvokeIDs :
       inv[r].pc \in {"run_created", "calling"} =>
         inv[r].inserted = 1 /\ Cardinality(RowsOf(runs, inv[r].run.ID)) = 1

\* A failed invoke has just been answered and an earlier one succeeded.
C1_Witness ==
  /\ InvokeReturned /\ last.failed /\ last.inserted = 1
  /\ \E i \in DOMAIN runs : runs[i].Status = RunStatusComplete

\* C2: whenever the external call of an invoke request has been issued, the
\* runs table already holds the row of that request, with status created and
\* the task payload of the request.
C2_RunInsertedBeforeCall ==
  \A r \in InvokeIDs :
    inv[r].pc = "calling" =>
      \E i \in RowsOf(runs, inv[r].run.ID) :
        /\ runs[i].Status = RunStatusCreated
        /\ runs[i].Task = {<<"content", inv[r].task>>, <<"source", "user">>}
        /\ runs[i].SessionID = inv[r].sessionID

\* Two external calls are outstanding at once.
C2_Witness ==
  \A r \in InvokeIDs : inv[r].pc = "calling"

\* C3 as stated: after the external call of an invoke failed, the stored run
\* has status error and ErrorMessage equal to the error string.
C3_Original ==
  (InvokeReturned /\ last.failed) =>
    \A i \in RowsOf(runs, last.runID) :
      runs[i].Status = RunStatusError /\ runs[i].ErrorMessage = last.err

\* C3: after the external call of an invoke failed, the stored run has status
\* error and ErrorMessage equal to the (non-empty) error string if the update
\* of the run was written; if that update failed the run is left with status
\* created and no ErrorMessage.  The request is answered with 500 either way.
C3_FailureRecorded ==
  (InvokeReturned /\ last.failed) =>
    /\ last.code = RespInternalServerError
    /\ RowsOf(runs, last.runID) # {}
    /\ \A i \in RowsOf(runs, last.runID) :
         IF last.saved
         THEN /\ runs[i].Status = RunStatusError
              /\ runs[i].ErrorMessage = last.err
              /\ runs[i].ErrorMessage \notin {NilString, ""}
         ELSE /\ runs[i].Status = RunStatusCreated
              /\ runs[i].ErrorMessage = NilString

\* A failed call whose update was written.
C3_Witness ==
  /\ InvokeReturned /\ last.failed /\ last.saved
  /\ \E i \in RowsOf(runs, last.runID) : runs[i].ErrorMessage \in ErrorStrings

\* C4 as stated: after the external call of an invoke returned successfully,
\* the stored run has status complete and a non-empty TeamResult.
C4_Original ==
  (InvokeReturned /\ ~last.failed) =>
    \A i \in RowsOf(runs, last.runID) :
      runs[i].Status = RunStatusComplete /\ runs[i].TeamResult # EmptyJSONMap

\* C4: after the external call of an invoke returned successfully, the stored
\* run has status complete if the update of the run was written, and then its
\* TeamResult is the response's JSON form when the response is not nil and
\* stays empty when it is nil; if the update failed the run is left with
\* status created and an empty TeamResult.  The request is answered with 200
\* either way.
C4_SuccessRecorded ==
  (InvokeReturned /\ ~last.failed) =>
    /\ last.code = RespOK
    /\ RowsOf(runs, last.runID) # {}
    /\ \A i \in RowsOf(runs, last.runID) :
         IF last.saved
         THEN /\ runs[i].Status = RunStatusComplete
              /\ runs[i].ErrorMessage = NilString
              /\ IF last.result.IsNil
                 THEN runs[i].TeamResult = EmptyJSONMap
                 ELSE /\ runs[i].TeamResult = ToJSONMap(last.result)
                      /\ runs[i].TeamResult # EmptyJSONMap
         ELSE /\ runs[i].Status = RunStatusCreated
              /\ runs[i].TeamResult = EmptyJSONMap

\* A successful call with a result, whose update was written.
C4_Witness ==
  /\ InvokeReturned /\ ~last.failed /\ last.saved /\ ~last.result.IsNil
  /\ \E i \in RowsOf(runs, last.runID) : runs[i].TeamResult # EmptyJSONMap

\* C5: once the stored status of a run is complete or error, no step of any
\* request changes it, and the row stays in the table.
C5_TerminalIsFinal ==
  [][\A i \in DOMAIN runs :
       runs[i].Status \in TerminalStatuses =>
         i \in DOMAIN runs' /\ runs'[i].Status = runs[i].Status]_vars

\* A run failed, and a later run of the same session completed.
C5_Witness ==
  \E i, j \in DOMAIN runs :
    /\ i < j
    /\ runs[i].SessionID = runs[j].SessionID
    /\ runs[i].Status = RunStatusError
    /\ runs[j].Status = RunStatusComplete

\* C6 as stated: a run enters complete or error only from active, and enters
\* active only from created.
C6_Original ==
  [][\A i \in DOMAIN runs \cap DOMAIN runs' :
       /\ (runs'[i].Status \in TerminalStatuses /\ runs[i].Status \notin TerminalStatuses)
            => runs[i].Status = RunStatusActive
       /\ (runs'[i].Status = RunStatusActive /\ runs[i].Status # RunStatusActive)
            => runs[i].Status = RunStatusCreated]_vars

\* C6: a run is inserted with status created, the only change of status it
\* undergoes is from created directly to complete or error, and no run ever
\* has status active.
C6_CreatedThenTerminal ==
  [][/\ \A i \in DOMAIN runs' \ DOMAIN runs : runs'[i].Status = RunStatusCreated
     /\ \A i \in DOMAIN runs \cap DOMAIN runs' :
          /\ runs'[i].Status # RunStatusActive
          /\ runs'[i].Status # runs[i].Status =>
               /\ runs[i].Status = RunStatusCreated
               /\ runs'[i].Status \in TerminalStatuses]_vars

\* One run has completed and another has failed.
C6_Witness ==
  /\ \E i \in DOMAIN runs : runs[i].Status = RunStatusComplete
  /\ \E i \in DOMAIN runs : runs[i].Status = RunStatusError

\* C7: no run row has status stopped, and no invoke handler holds a run with
\* status stopped.
C7_NeverStopped ==
  /\ \A i \in DOMAIN runs : runs[i].Status # RunStatusStopped
  /\ \A r \in InvokeIDs : inv[r].run.Status # RunStatusStopped

\* Every row the bound allows has been given a final status by a handler.
C7_Witness ==
  /\ Len(runs) = MaxRuns
  /\ \A i \in DOMAIN runs : runs[i].Status \in TerminalStatuses

\* C8: a create-session request with an empty user ID is answered with 400
\* without any call to the store, and no session row has an empty user ID.
C8_EmptyUserRejected ==
  /\ (last.op = "create" /\ last.userID = NoUser) =>
       last.code = RespBadRequest /\ last.dbCalls = 0
  /\ \A i \in DOMAIN sessions : sessions[i].UserID # NoUser

\* A decodable create request with an empty user ID has been rejected while
\* other sessions exist.
C8_Witness ==
  /\ last.op = "create" /\ last.bodyOK /\ last.userID = NoUser
  /\ last.code = RespBadRequest
  /\ Len(sessions) > 0

\* C9: a well-formed get-session request for a name under which the user has
\* no session is answered with 404, and no get-session request is answered
\* with 500.
C9_MissingSessionNotFound ==
  last.op = "get" =>
    /\ last.code # RespInternalServerError
    /\ (last.dbCalls = 1 /\ ~last.existed) => last.code = RespNotFound

\* A get for a name whose only session has been deleted was answered 404.
C9_Witness ==
  /\ last.op = "get" /\ last.dbCalls = 1 /\ ~last.existed
  /\ last.code = RespNotFound
  /\ \E i \in DOMAIN sessions : sessions[i].Deleted

\* C10 as stated: once a session is deleted, none of its runs and none of
\* their messages are left in the store.
C10_DeleteCascades ==
  \A s \in DOMAIN sessions :
    sessions[s].Deleted =>
      /\ RunsOfSession(sessions[s].ID) = {}
      /\ \A i \in RunsOfSession(sessions[s].ID) : GetMessagesForRun(runs[i].ID) = {}

\* C11 as stated, taken at the moment a run row is inserted (so that rows a
\* session delete leaves behind do not count): under any interleaving of
\* invoke and delete-session requests, a newly inserted run row references
\* a session that exists (is visible to queries) and is owned by the user of
\* the run.
C11_InsertReferencesLiveSession ==
  [][\A i \in DOMAIN runs' \ DOMAIN runs :
       \E s \in {t \in DOMAIN sessions' : ~sessions'[t].Deleted} :
         sessions'[s].ID = runs'[i].SessionID /\ sessions'[s].UserID = runs'[i].UserID]_vars

\* ---------------------------------------------------------- tool registry
ToolServerIDs == 1..MaxToolServers

LiveToolServers == {i \in DOMAIN toolServers : ~toolServers[i].Deleted}
LiveTools == {i \in DOMAIN tools : ~tools[i].Deleted}

\* Delete on a model with DeletedAt: sets deleted_at on the chosen live rows.
SoftDelete(rows, idx) ==
  [i \in DOMAIN rows |-> IF i \in idx THEN [rows[i] EXCEPT !.Deleted = TRUE] ELSE rows[i]]

\* Service.DeleteToolServer: inside one transaction, delete the tools with
\* this server_id and user_id, then the server with this id and user_id; an
\* error, or no server row affected, rolls the transaction back.
ToolsOfServerAndUser(serverID, userID) ==
  {i \in LiveTools : tools[i].ServerID = serverID /\ tools[i].UserID = userID}

MatchToolServer(serverID, userID) ==
  {i \in LiveToolServers :
     toolServers[i].ID = serverID /\ toolServers[i].UserID = userID}

DeleteToolServer(serverID, userID, dbOK) ==
  IF dbOK /\ MatchToolServer(serverID, userID) # {}
  THEN [err |-> FALSE,
        servers |-> SoftDelete(toolServers, MatchToolServer(serverID, userID)),
        tools |-> SoftDelete(tools, ToolsOfServerAndUser(serverID, userID))]
  ELSE [err |-> TRUE, servers |-> toolServers, tools |-> tools]

\* clientImpl.DeleteToolServer: Service.Delete on the toolserver table with
\* the clause name = serverName; RowsAffected is not looked at and the tool
\* table is not written.
MatchToolServerByName(serverName) ==
  {i \in LiveToolServers : toolServers[i].Name = serverName}

\* Service.Delete: query.Delete(t); only result.Error is looked at.
ServiceDelete(rows, idx, dbOK) ==
  IF dbOK
  THEN [err |-> NoError, rows |-> SoftDelete(rows, idx)]
  ELSE [err |-> ErrDriver, rows |-> rows]

\* Service.Get: query.First(&model); First reports ErrRecordNotFound when no
\* row matches.
ServiceGet(rows, idx, dbOK) ==
  IF ~dbOK THEN [err |-> ErrDriver, row |-> 0]
  ELSE IF idx = {} THEN [err |-> ErrRecordNotFound, row |-> 0]
  ELSE [err |-> NoError, row |-> rows[First(idx)].ID]

DeleteToolServerByName(serverName, dbOK) ==
  [err |-> ServiceDelete(toolServers, MatchToolServerByName(serverName), dbOK).err # NoError,
   servers |-> ServiceDelete(toolServers, MatchToolServerByName(serverName), dbOK).rows,
   tools |-> tools]

\* clientImpl.GetToolServer: Service.Get with the clause name = serverName.
GetToolServerByName(serverName, dbOK) ==
  ServiceGet(toolServers, MatchToolServerByName(serverName), dbOK)

\* Service.CreateToolServer
ToolServerCreate ==
  \E userID \in Users :
    /\ Len(toolServers) < MaxToolServers
    /\ toolServers' = Append(toolServers,
                             [ID |-> NextID(toolServers), UserID |-> userID,
                              Name |-> NameOf(NextID(toolServers)), Deleted |-> FALSE])
    /\ tlast' = [NoToolOp EXCEPT !.op = "create_server", !.ok = TRUE]
    /\ UNCHANGED <<tools, OutsideTools>>

\* POST /api/tools: user_id and server_id are taken from the request body.
HandleCreateToolDB ==
  \E userID \in Users, serverID \in ToolServerIDs :
    /\ Len(tools) < MaxTools
    /\ tools' = Append(tools, [ID |-> NextID(tools), UserID |-> userID,
                               ServerID |-> serverID, Deleted |-> FALSE])
    /\ tlast' = [NoToolOp EXCEPT !.op = "create_tool", !.ok = TRUE]
    /\ UNCHANGED <<toolServers, OutsideTools>>

ToolServerDelete ==
  \E userID \in Users, serverID \in ToolServerIDs, dbOK \in BOOLEAN :
    LET out == DeleteToolServer(serverID, userID, dbOK) IN
    /\ toolServers' = out.servers
    /\ tools' = out.tools
    /\ tlast' = [NoToolOp EXCEPT
                   !.op = "delete_server", !.ok = ~out.err,
                   !.servers = IF out.err THEN {}
                               ELSE {toolServers[i].ID : i \in MatchToolServer(serverID, userID)}]
    /\ UNCHANGED OutsideTools

ToolServerDeleteByName ==
  \E serverName \in Names, dbOK \in BOOLEAN :
    LET out == DeleteToolServerByName(serverName, dbOK) IN
    /\ toolServers' = out.servers
    /\ tools' = out.tools
    /\ tlast' = [NoToolOp EXCEPT
                   !.op = "delete_server_by_name", !.ok = ~out.err,
                   !.matched = Cardinality(MatchToolServerByName(serverName)),
                   !.err = ServiceDelete(toolServers, MatchToolServerByName(serverName),
                                         dbOK).err,
                   !.servers = IF out.err THEN {}
                               ELSE {toolServers[i].ID : i \in MatchToolServerByName(serverName)}]
    /\ UNCHANGED OutsideTools

ToolServerGetByName ==
  \E serverName \in Names, dbOK \in BOOLEAN :
    LET out == GetToolServerByName(serverName, dbOK) IN
    /\ tlast' = [NoToolOp EXCEPT
                   !.op = "get_server_by_name", !.ok = out.err = NoError,
                   !.matched = Cardinality(MatchToolServerByName(serverName)),
                   !.err = out.err]
    /\ UNCHANGED <<toolServers, tools, OutsideTools>>

NextTools ==
  \/ ToolServerCreate
  \/ ToolServerGetByName
  \/ HandleCreateToolDB
  \/ ToolServerDelete
  \/ ToolServerDeleteByName

SpecTools == Init /\ [][NextTools]_vars

\* C12 as stated: after a tool server has been deleted successfully, no tool
\* whose server_id is that server's key remains in the tool table.
C12_ToolServerDeleteCascades ==
  tlast.ok =>
    \A t \in LiveTools : tools[t].ServerID \notin tlast.servers

\* C13 as stated: a Get or Delete of the persistence layer whose filter
\* clauses match no row (the driver itself not failing) returns a not-found
\* error, never success.
C13_ZeroRowsNotFound ==
  (/\ tlast.op \in {"get_server_by_name", "delete_server_by_name"}
   /\ tlast.matched = 0
   /\ tlast.err # ErrDriver)
    => tlast.err = ErrRecordNotFound

\* ------------------------------------------------------------ List queries
\* Rows carry the value of their filter column (user_id, session_id or
\* run_id) and the created_at gorm stamped them with.  The stamp is taken
\* before the insert, so neither distinct nor increasing stamps are assured.
Times == 0..MaxTime

MatchKey(key) == {i \in DOMAIN ltable : ltable[i].Key = key}

\* The orders in which a query with ORDER BY created_at may return the rows
\* idx: every arrangement that is sorted in the asked direction.
Arrangements(idx) ==
  {q \in [1..Cardinality(idx) -> idx] : \A i, j \in DOMAIN q : i # j => q[i] # q[j]}

OrderByCreatedAt(idx, desc) ==
  {q \in Arrangements(idx) :
     \A i, j \in DOMAIN q :
       i < j => IF desc THEN ltable[q[i]].CreatedAt >= ltable[q[j]].CreatedAt
                        ELSE ltable[q[i]].CreatedAt <= ltable[q[j]].CreatedAt}

\* Service.List: Where(clauses).Order("created_at DESC")
ServiceList_ascending(key) == OrderByCreatedAt(MatchKey(key), FALSE)

ServiceList(key) == OrderByCreatedAt(MatchKey(key), TRUE)

\* ListSessions: Where("user_id = ?").Order("created_at DESC")
ListSessions(key) == OrderByCreatedAt(MatchKey(key), TRUE)

\* GetSessionRuns: Where("session_id = ?").Order("created_at ASC")
SessionRunsInOrder(key) == OrderByCreatedAt(MatchKey(key), FALSE)

\* GetMessagesForRun: Where("run_id = ?").Order("created_at ASC")
MessagesForRunInOrder(key) == OrderByCreatedAt(MatchKey(key), FALSE)

Listed(op, key, q) ==
  [op |-> op, key |-> key, rows |-> [i \in DOMAIN q |-> ltable[q[i]].ID]]

\* db.Create
ListRowCreate ==
  \E key \in Users, t \in Times :
    /\ Len(ltable) < MaxListRows
    /\ ltable' = Append(ltable, [ID |-> NextID(ltable), Key |-> key, CreatedAt |-> t])
    /\ listing' = NoListing
    /\ UNCHANGED OutsideLists

ServiceListCall ==
  \E key \in Users :
    \E q \in ServiceList(key) :
      /\ listing' = Listed("Service.List", key, q)
      /\ UNCHANGED <<ltable, OutsideLists>>

ListSessionsCall ==
  \E key \in Users :
    \E q \in ListSessions(key) :
      /\ listing' = Listed("ListSessions", key, q)
      /\ UNCHANGED <<ltable, OutsideLists>>

GetSessionRunsCall ==
  \E key \in Users :
    \E q \in SessionRunsInOrder(key) :
      /\ listing' = Listed("GetSessionRuns", key, q)
      /\ UNCHANGED <<ltable, OutsideLists>>

GetMessagesForRunCall ==
  \E key \in Users :
    \E q \in MessagesForRunInOrder(key) :
      /\ listing' = Listed("GetMessagesForRun", key, q)
      /\ UNCHANGED <<ltable, OutsideLists>>

NextLists ==
  \/ ListRowCreate
  \/ ServiceListCall
  \/ ListSessionsCall
  \/ GetSessionRunsCall
  \/ GetMessagesForRunCall

SpecLists == Init /\ [][NextLists]_vars

CreatedAtOf(id) == ltable[CHOOSE i \in DOMAIN ltable : ltable[i].ID = id].CreatedAt

NewestFirst(rows) ==
  \A i, j \in DOMAIN rows : i < j => CreatedAtOf(rows[i]) >= CreatedAtOf(rows[j])

OldestFirst(rows) ==
  \A i, j \in DOMAIN rows : i < j => CreatedAtOf(rows[i]) <= CreatedAtOf(rows[j])

\* The listing holds each row matching the key exactly once.
ListsTheMatches ==
  /\ {listing.rows[i] : i \in DOMAIN listing.rows}
       = {ltable[i].ID : i \in MatchKey(listing.key)}
  /\ Len(listing.rows) = Cardinality(MatchKey(listing.key))

\* C14 as stated: every List operation returns its rows newest first.
C14_Original ==
  listing.op # "none" => NewestFirst(listing.rows)

\* C14: Service.List and ListSessions return the rows matching their clauses
\* newest first (descending created_at); GetSessionRuns and GetMessagesForRun
\* return them oldest first (ascending created_at).
C14_ListOrder ==
  /\ listing.op \in {"Service.List", "ListSessions"} =>
       NewestFirst(listing.rows) /\ ListsTheMatches
  /\ listing.op \in {"GetSessionRuns", "GetMessagesForRun"} =>
       OldestFirst(listing.rows) /\ ListsTheMatches

\* Service.List has returned three rows that carry two or more created_at
\* values, the oldest of them inserted last.
C14_Witness ==
  /\ listing.op = "Service.List"
  /\ Len(listing.rows) = 3
  /\ CreatedAtOf(listing.rows[1]) > CreatedAtOf(listing.rows[3])
  /\ listing.rows[3] > listing.rows[1]

\* C15 as stated: a well-formed get, delete, list-runs or invoke request for
\* a session that does not exist for the user, handled while the store is
\* working, is answered with 404 and not with 500.
C15_MissingSessionIs404 ==
  (/\ last.op \in {"get", "delete", "list_runs", "invoke"}
   /\ last.dbCalls >= 1
   /\ last.dbOK
   /\ ~last.existed)
    => last.code = RespNotFound


\* Responses that report a failure to the caller.
ErrorStatuses == {RespBadRequest, RespNotFound, RespInternalServerError}

\* A store call or the external call failed while the last request was
\* handled.
ErrorOccurred == ~last.dbOK \/ ~last.msgOK \/ last.failed

\* The two failures the handlers log and carry on from: the final update of
\* a run whose call succeeded, and the loading of a listed run's messages.
LoggedOnly ==
  \/ last.op = "invoke" /\ last.called /\ ~last.failed /\ ~last.saved
  \/ last.op = "list_runs" /\ ~last.msgOK

\* C16 as stated: no request during which a store call or the external call
\* failed is answered with a success status.
C16_Original == ErrorOccurred => last.code \in ErrorStatuses

\* C16: a failed store call or external call is answered with an error
\* status, except a failed final update after a successful call and a failed
\* load of a listed run's messages, which are logged and answered with 200.
C16_ErrorsSurface ==
  /\ (ErrorOccurred /\ ~LoggedOnly) => last.code \in ErrorStatuses
  /\ LoggedOnly => last.code = RespOK

\* C16 witness: the run listing failed in the store and was answered with 500.
C16_Witness ==
  /\ last.op = "list_runs"
  /\ ~last.dbOK
  /\ last.code = RespInternalServerError


\* ------------------------------------------------------------------ teams
\* Agent references ("namespace/name") that requests name.
TeamRefs == {"ns/a", "ns/b"}

\* A JSON object as it travels in a body: its members in the order written.
\* Keys are numbered in their sort order.
JSONKeys == 1..MaxPairs
JSONValues == {"x", "y"}
JSONDocs == UNION {[1..n -> JSONKeys \X JSONValues] : n \in 0..MaxPairs}

\* json.Unmarshal into a map: a later member replaces an earlier member with
\* the same key, and the order of the members is forgotten.
LastMember(doc, k) ==
  CHOOSE i \in DOMAIN doc : doc[i][1] = k /\ \A j \in DOMAIN doc : doc[j][1] = k => j <= i

Unmarshal(doc) == [k \in {doc[i][1] : i \in DOMAIN doc} |-> doc[LastMember(doc, k)][2]]

\* json.Marshal of a map: one member per key, in the sort order of the keys.
RECURSIVE SortedKeys(_)
SortedKeys(S) ==
  IF S = {} THEN <<>>
  ELSE LET k == CHOOSE x \in S : \A y \in S : x <= y
       IN <<k>> \o SortedKeys(S \ {k})

Marshal(m) ==
  [i \in 1..Cardinality(DOMAIN m) |-> <<SortedKeys(DOMAIN m)[i], m[SortedKeys(DOMAIN m)[i]]>>]

\* Scan and Value of the JSON column: the column holds the marshalled map,
\* and a read unmarshals it again.
Value(m) == Marshal(m)
Scan(column) == Unmarshal(column)

\* Two documents with the same members, in any order.
Occurrences(doc, member) == Cardinality({i \in DOMAIN doc : doc[i] = member})

SameModuloKeyOrder(d1, d2) ==
  /\ Len(d1) = Len(d2)
  /\ \A i \in DOMAIN d1 : Occurrences(d1, d1[i]) = Occurrences(d2, d1[i])

\* Team rows.  Name carries a unique index, which also counts soft-deleted
\* rows.
LiveTeams == {i \in DOMAIN teams : ~teams[i].Deleted}
MatchTeamByName(teamLabel) == {i \in LiveTeams : teams[i].Name = teamLabel}
NameTaken(name) == \E i \in DOMAIN teams : teams[i].Name = name

\* Service.Create on the team table.
ServiceCreateTeam(team, dbOK) ==
  IF dbOK /\ ~NameTaken(team.Name)
  THEN [err |-> NoError,
        rows |-> Append(teams, [ID |-> NextID(teams), Name |-> team.Name,
                                Component |-> Value(team.Component), Deleted |-> FALSE])]
  ELSE [err |-> ErrDriver, rows |-> teams]

\* clientImpl.GetTeam: Service.Get with the clause name = teamLabel.
GetTeam(teamLabel, dbOK) == ServiceGet(teams, MatchTeamByName(teamLabel), dbOK)

\* Service.Update on a team that was read from the table: db.Save writes the
\* row with the team's primary key.
ServiceUpdateTeam(teamID, component, dbOK) ==
  IF dbOK
  THEN [err |-> NoError,
        rows |-> [i \in DOMAIN teams |->
                    IF teams[i].ID = teamID
                    THEN [teams[i] EXCEPT !.Component = Value(component)]
                    ELSE teams[i]]]
  ELSE [err |-> ErrDriver, rows |-> teams]

\* The team HandleCreateTeam builds: only Component is set, so Name is the
\* empty string whatever agent_ref the body carries.
NewTeam(agentRef, doc) == [Name |-> "", Component |-> Unmarshal(doc)]

\* POST /api/teams: decode the body, create the team, answer 201.  The
\* handler does not read the user ID of the request.
HandleCreateTeam ==
  \E userID \in {NoUser, "u1"}, bodyOK \in BOOLEAN, agentRef \in TeamRefs,
     doc \in JSONDocs, dbOK \in BOOLEAN :
    LET created == ServiceCreateTeam(NewTeam(agentRef, doc), dbOK) IN
    /\ Len(created.rows) <= MaxTeams
    /\ ~bodyOK => dbOK /\ doc = <<>> /\ agentRef = "ns/a"
    /\ teams' = IF bodyOK THEN created.rows ELSE teams
    /\ teamLast' = [NoTeamResponse EXCEPT
                      !.op = "create_team", !.bodyOK = bodyOK, !.dbOK = dbOK,
                      !.userID = userID,
                      !.ref = IF bodyOK THEN agentRef ELSE "",
                      !.posted = doc,
                      !.code = IF ~bodyOK THEN RespBadRequest
                               ELSE IF created.err # NoError THEN RespInternalServerError
                               ELSE RespCreated,
                      !.dbCalls = IF bodyOK THEN 1 ELSE 0,
                      !.returned = IF bodyOK /\ created.err = NoError
                                   THEN Marshal(Unmarshal(doc)) ELSE <<>>]
    /\ UNCHANGED OutsideTeams

\* Requests that name a team in the path; a request that fails a check
\* carries fixed values for the inputs its handler never reads.
TeamRequests ==
  {[pathOK |-> FALSE, userID |-> "u1", key |-> "ns/a", dbOK |-> TRUE],
   [pathOK |-> TRUE, userID |-> NoUser, key |-> "ns/a", dbOK |-> TRUE]}
    \cup [pathOK : {TRUE}, userID : {"u1"}, key : TeamRefs, dbOK : BOOLEAN]

\* GET /api/teams/{agent_name}/{agent_namespace}: user ID, path parameters,
\* then the team named "namespace/name".
HandleGetTeam ==
  \E q \in TeamRequests :
    LET got == GetTeam(q.key, q.dbOK)
        found == q.pathOK /\ q.userID # NoUser /\ got.err = NoError IN
    /\ teamLast' = [NoTeamResponse EXCEPT
                      !.op = "get_team", !.pathOK = q.pathOK, !.dbOK = q.dbOK,
                      !.userID = q.userID,
                      !.ref = IF q.pathOK THEN q.key ELSE "",
                      !.code = IF q.userID = NoUser \/ ~q.pathOK THEN RespBadRequest
                               ELSE IF got.err # NoError THEN RespNotFound
                               ELSE RespOK,
                      !.dbCalls = IF q.userID = NoUser \/ ~q.pathOK THEN 0 ELSE 1,
                      !.returned = IF found THEN Marshal(Scan(teams[got.row].Component))
                                   ELSE <<>>]
    /\ UNCHANGED <<teams, OutsideTeams>>

\* PUT /api/teams/{agent_name}/{agent_namespace}: path parameters, user ID,
\* body, the existing team, then the update.
HandleUpdateTeam ==
  \E q \in TeamRequests, bodyOK \in BOOLEAN, doc \in JSONDocs, saveOK \in BOOLEAN :
    LET valid == q.pathOK /\ q.userID # NoUser /\ bodyOK
        got == GetTeam(q.key, q.dbOK)
        saved == ServiceUpdateTeam(got.row, Unmarshal(doc), saveOK) IN
    /\ ~(valid /\ got.err = NoError) => saveOK /\ doc = <<>>
    /\ ~(q.pathOK /\ q.userID # NoUser) => bodyOK
    /\ ~bodyOK => q.dbOK
    /\ teams' = IF valid /\ got.err = NoError THEN saved.rows ELSE teams
    /\ teamLast' = [NoTeamResponse EXCEPT
                      !.op = "update_team", !.pathOK = q.pathOK, !.bodyOK = bodyOK,
                      !.dbOK = q.dbOK /\ saveOK, !.userID = q.userID,
                      !.ref = IF q.pathOK THEN q.key ELSE "",
                      !.code = IF ~valid THEN RespBadRequest
                               ELSE IF got.err # NoError THEN RespNotFound
                               ELSE IF saved.err # NoError THEN RespInternalServerError
                               ELSE RespOK,
                      !.dbCalls = IF ~valid THEN 0 ELSE IF got.err # NoError THEN 1 ELSE 2]
    /\ UNCHANGED OutsideTeams

\* clientImpl.UpsertTeam with a team that has a name and no primary key:
\* Service.Update saves it as a new row.
UpsertTeam ==
  \E name \in TeamRefs, doc \in JSONDocs :
    /\ Len(teams) < MaxTeams
    /\ ~NameTaken(name)
    /\ teams' = ServiceCreateTeam([Name |-> name, Component |-> Unmarshal(doc)], TRUE).rows
    /\ UNCHANGED <<teamLast, OutsideTeams>>

NextTeams ==
  \/ HandleCreateTeam
  \/ HandleGetTeam
  \/ HandleUpdateTeam
  \/ UpsertTeam

SpecTeams == Init /\ [][NextTeams]_vars

\* Team requests that go through a resource handler.
TeamHandlerOps == {"create_team", "get_team", "update_team"}

\* C17: a team request that carries no user identity is answered with 400
\* and reaches no store call.
C17_NoUserIs400 ==
  (teamLast.op \in TeamHandlerOps /\ teamLast.pathOK /\ teamLast.userID = NoUser)
    => (teamLast.code = RespBadRequest /\ teamLast.dbCalls = 0)

\* C19: a GET of the agent reference that the POST just answered with 201
\* named returns 200 with the posted component, members in any order.
C19_RoundTrip ==
  [][(/\ teamLast.op = "create_team"
      /\ teamLast.code = RespCreated
      /\ teamLast'.op = "get_team"
      /\ teamLast'.pathOK
      /\ teamLast'.userID # NoUser
      /\ teamLast'.dbOK
      /\ teamLast'.ref = teamLast.ref)
       => (/\ teamLast'.code = RespOK
           /\ SameModuloKeyOrder(teamLast'.returned, teamLast.posted))]_vars


\* ------------------------------------------------------- streaming invoke
\* Events the external client sends: a type and a payload of bytes, which
\* may hold a line feed.
EventTypes == {"message", "error"}
Bytes == {"x", "\n"}
Payloads == UNION {[1..n -> Bytes] : n \in 0..MaxData}
SseEvents == [Event : EventTypes, Data : Payloads]

\* fmt.Sprintf("event: %s\ndata: %s\n\n", event.Event, event.Data)
Frame_noBlankLine(e) == <<"event: ", e.Event, "\n", "data: ">> \o e.Data \o <<"\n">>

Frame(e) == <<"event: ", e.Event, "\n", "data: ">> \o e.Data \o <<"\n", "\n">>

\* POST /api/sessions/{sessionID}/invoke/stream up to the call of
\* InvokeSessionStream: path parameter, user ID, body, then the call, whose
\* error is answered with 500.
StartStream ==
  \E pathOK \in BOOLEAN, userID \in {NoUser, "u1"}, bodyOK \in BOOLEAN, callOK \in BOOLEAN :
    /\ streamPc = "idle"
    /\ ~pathOK => userID = "u1"
    /\ ~(pathOK /\ userID # NoUser) => bodyOK
    /\ ~(pathOK /\ userID # NoUser /\ bodyOK) => callOK
    /\ streamCode' = IF ~pathOK \/ userID = NoUser \/ ~bodyOK THEN RespBadRequest
                     ELSE IF ~callOK THEN RespInternalServerError
                     ELSE RespNone
    /\ streamPc' = IF pathOK /\ userID # NoUser /\ bodyOK /\ callOK
                   THEN "receive" ELSE "rejected"
    /\ UNCHANGED <<ch, chClosed, sent, event, relayed, written, OutsideStream>>

\* The client's goroutine puts an event on the channel when there is room.
ClientSend ==
  \E e \in SseEvents :
    /\ streamPc \in {"receive", "write"}
    /\ ~chClosed
    /\ Len(sent) < MaxEvents
    /\ Len(ch) < ChanCap
    /\ ch' = Append(ch, e)
    /\ sent' = Append(sent, e)
    /\ UNCHANGED <<streamPc, streamCode, chClosed, event, relayed, written, OutsideStream>>

\* The client's goroutine closes the channel (defer close(ch)).
ClientClose ==
  /\ streamPc \in {"receive", "write"}
  /\ ~chClosed
  /\ chClosed' = TRUE
  /\ UNCHANGED <<streamPc, streamCode, ch, sent, event, relayed, written, OutsideStream>>

\* for event := range ch: take the next event, or leave the loop and return
\* when the channel is closed and drained.
HandlerReceive ==
  /\ streamPc = "receive"
  /\ ch # <<>> \/ chClosed
  /\ IF ch # <<>>
     THEN /\ event' = Head(ch)
          /\ ch' = Tail(ch)
          /\ streamPc' = "write"
     ELSE /\ event' = NoEvent
          /\ ch' = ch
          /\ streamPc' = "returned"
  /\ UNCHANGED <<streamCode, chClosed, sent, relayed, written, OutsideStream>>

\* w.Write of the frame of the event in hand.
HandlerWrite ==
  /\ streamPc = "write"
  /\ written' = written \o Frame(event)
  /\ relayed' = relayed + 1
  /\ event' = NoEvent
  /\ streamPc' = "receive"
  /\ UNCHANGED <<streamCode, ch, chClosed, sent, OutsideStream>>

NextStream ==
  \/ StartStream
  \/ ClientSend
  \/ ClientClose
  \/ HandlerReceive
  \/ HandlerWrite

SpecStream == Init /\ [][NextStream]_vars

\* The handler's goroutine is scheduled as long as it can take a step.
SpecStreamFair == SpecStream /\ WF_vars(HandlerReceive) /\ WF_vars(HandlerWrite)

\* Events the handler has taken off the channel and not yet written.
InHand == IF streamPc = "write" THEN 1 ELSE 0

\* A server-sent-events stream of the given events: for each, an "event:"
\* line with its type, a "data:" line with its payload, and a blank line.
RECURSIVE EventStream(_)
EventStream(events) ==
  IF events = <<>> THEN <<>>
  ELSE <<"event: ", Head(events).Event, "\n">>
         \o (<<"data: ">> \o Head(events).Data \o <<"\n">>)
         \o <<"\n">>
         \o EventStream(Tail(events))

\* The response holds the frames of the first events sent, in the order
\* sent, each once; every event sent is written, in hand or on the channel;
\* the handler holds at most the one event it is writing; it returns only
\* after the channel is closed and every event is written.
RelayInvariant ==
  /\ written = EventStream(SubSeq(sent, 1, relayed))
  /\ relayed + InHand + Len(ch) = Len(sent)
  /\ streamPc = "write" => event = sent[relayed + 1]
  /\ streamPc = "returned" => chClosed /\ relayed = Len(sent)

\* C18: the streaming handler writes each event of the channel once, in
\* arrival order, as "event: <type>\ndata: <payload>\n\n" with the payload
\* unchanged, holds no more than the event it is writing, and returns once
\* the channel is closed.
C18_RelayInOrder ==
  /\ []RelayInvariant
  /\ (chClosed ~> streamPc = "returned")

\* C18 witness: the handler returned after relaying every event of a stream
\* of MaxEvents events.
C18_Witness ==
  /\ streamPc = "returned"
  /\ Len(sent) = MaxEvents
  /\ relayed = MaxEvents
  /\ sent[1] # sent[2]


\* ------------------------------------------------------------ REST client
\* Status codes a server answers with, on both sides of 400.
StatusCodes == {200, 201, 399, 400, 404, 500, 503}

\* Response bodies.  A body is text that is not JSON, a JSON array, or a JSON
\* object whose "error" member is absent, null, a string, a boolean or a
\* number.
JAbsent == [t |-> "absent", v |-> ""]
JNull == [t |-> "null", v |-> "null"]
ErrorMembers ==
  {JAbsent, JNull,
   [t |-> "string", v |-> ""],
   [t |-> "string", v |-> "Resource not found"],
   [t |-> "string", v |-> "Request failed"],
   [t |-> "bool", v |-> "true"],
   [t |-> "number", v |-> "42"]}
Bodies ==
  {[kind |-> "text", error |-> JAbsent], [kind |-> "array", error |-> JAbsent]}
    \cup [kind : {"object"}, error : ErrorMembers]

\* json.Unmarshal(bodyBytes, &apiErr) with APIError{Error string}: fails on
\* text that is not JSON, on a JSON value that is not an object, and on an
\* "error" member that is not a string or null; null and an absent member
\* leave Error empty.
UnmarshalAPIError(body) ==
  IF body.kind # "object" THEN [ok |-> FALSE, Error |-> ""]
  ELSE IF body.error.t = "string" THEN [ok |-> TRUE, Error |-> body.error.v]
  ELSE IF body.error.t \in {"absent", "null"} THEN [ok |-> TRUE, Error |-> ""]
  ELSE [ok |-> FALSE, Error |-> ""]

\* doRequest after c.HTTPClient.Do: a transport error is returned as it is;
\* a status of 400 or more becomes a *ClientError; any other response is
\* returned.
ClientErrorOf(resp) ==
  [returned |-> TRUE, resp |-> "nil", err |-> "ClientError",
   StatusCode |-> resp.StatusCode,
   Message |-> IF UnmarshalAPIError(resp.body).ok /\ UnmarshalAPIError(resp.body).Error # ""
               THEN UnmarshalAPIError(resp.body).Error
               ELSE "Request failed",
   Body |-> resp.body]

doRequest_above400(resp) ==
  IF ~resp.transportOK THEN [NoResult EXCEPT !.returned = TRUE, !.err = "transport"]
  ELSE IF resp.StatusCode > 400 THEN ClientErrorOf(resp)
  ELSE [NoResult EXCEPT !.returned = TRUE, !.resp = "response"]

doRequest(resp) ==
  IF ~resp.transportOK THEN [NoResult EXCEPT !.returned = TRUE, !.err = "transport"]
  ELSE IF resp.StatusCode >= 400 THEN ClientErrorOf(resp)
  ELSE [NoResult EXCEPT !.returned = TRUE, !.resp = "response"]

\* The server answers the request, or the transport fails.
ServerAnswers ==
  \E transportOK \in BOOLEAN, status \in StatusCodes, body \in Bodies :
    /\ ~httpResp.sent \/ clientResult.returned
    /\ ~transportOK => status = 200 /\ body.kind = "text"
    /\ httpResp' = [sent |-> TRUE, transportOK |-> transportOK,
                    StatusCode |-> IF transportOK THEN status ELSE 0,
                    body |-> IF transportOK THEN body ELSE <<>>]
    /\ clientResult' = NoResult
    /\ UNCHANGED OutsideClient

\* doRequest returns.
DoRequestReturns ==
  /\ httpResp.sent
  /\ ~clientResult.returned
  /\ clientResult' = doRequest(httpResp)
  /\ UNCHANGED <<httpResp, OutsideClient>>

NextClient ==
  \/ ServerAnswers
  \/ DoRequestReturns

SpecClient == Init /\ [][NextClient]_vars

\* doRequest returned for a response with a status of 400 or more.
ErrorStatusReturned ==
  clientResult.returned /\ httpResp.transportOK /\ httpResp.StatusCode >= 400

HasError(body) == body.kind = "object" /\ body.error.t \notin {"absent", "null"}

\* C20 as stated: the message is the "error" member whenever the member is
\* present and not empty.
C20_Original ==
  ErrorStatusReturned =>
    /\ clientResult.resp = "nil"
    /\ clientResult.err = "ClientError"
    /\ clientResult.StatusCode = httpResp.StatusCode
    /\ clientResult.Message = IF HasError(httpResp.body) /\ httpResp.body.error.v # ""
                        THEN httpResp.body.error.v
                        ELSE "Request failed"

\* C20: for a status of 400 or more the client returns no response and a
\* *ClientError with the response's status; its message is the "error"
\* member of the body when the body is a JSON object and the member is a
\* non-empty string, and "Request failed" in every other case, a member
\* that is a boolean or a number included.
C20_ClientError ==
  ErrorStatusReturned =>
    /\ clientResult.resp = "nil"
    /\ clientResult.err = "ClientError"
    /\ clientResult.StatusCode = httpResp.StatusCode
    /\ clientResult.Message = IF /\ httpResp.body.kind = "object"
                           /\ httpResp.body.error.t = "string"
                           /\ httpResp.body.error.v # ""
                        THEN httpResp.body.error.v
                        ELSE "Request failed"

\* C20 witness: the 404 of TestClientErrorHandling and, at the boundary, a
\* 400 whose body has a boolean "error" member.
C20_Witness ==
  /\ ErrorStatusReturned
  /\ \/ /\ httpResp.StatusCode = 404
        /\ clientResult.Message = "Resource not found"
     \/ /\ httpResp.StatusCode = 400
        /\ httpResp.body.error.t = "bool"
        /\ clientResult.Message = "Request failed"


\* ------------------------------------------------------- claims C21..C30
\* The external call of the last request failed and the update that records
\* it failed too.
FailureUpdateFailed ==
  last.op = "invoke" /\ last.called /\ last.failed /\ ~last.saved

\* The run of the last request, as the table holds it.
StoredRunOfLast == runs[CHOOSE i \in DOMAIN runs : runs[i].ID = last.runID]

InvokeAborted(resp) == resp.op = "invoke" /\ resp.code # RespNone /\ ~resp.called

\* Keys the sessions table has issued, deleted sessions included.
IssuedSessionIDs == {sessions[s].ID : s \in DOMAIN sessions}

\* C22: an invoke request whose session lookup or run insert fails never
\* calls the external agent and writes nothing: the step that answers it
\* leaves the runs and messages tables as they were and ends the request, it
\* has inserted no row, and no run row belongs to a lookup that failed.
C22_NoCompensatingWrites ==
  /\ [](InvokeAborted(last) => last.inserted = 0 /\ last.runID = 0)
  /\ [](\A i \in DOMAIN runs : runs[i].SessionID \in IssuedSessionIDs)
  /\ [][(InvokeAborted(last') /\ last' # last) =>
          /\ runs' = runs
          /\ messages' = messages
          /\ \A r \in InvokeIDs :
               inv'[r] # inv[r] => inv'[r] = IdleInvoke /\ inv[r].pc # "calling"]_vars

\* C22 witness: a run insert failed and was answered with 500 while the
\* table holds the run of another request.
C22_Witness ==
  /\ InvokeAborted(last)
  /\ last.dbCalls = 2
  /\ last.code = RespInternalServerError
  /\ runs # <<>>


\* -------------------------------------------------------- database manager
Callers == 1..MaxCallers

ErrInitInProgress == "database initialization already in progress"
ErrResetInProgress == "database reset already in progress"
ErrMigrate == "failed to migrate database"
ErrDropTables == "failed to drop tables"

\* sync.Mutex.TryLock: acquires the lock only when it is free.
TryLock_always(locked) == TRUE

TryLock(locked) == ~locked

\* Calls that are inside Initialize or Reset.
InProgress == {c \in Callers : calls[c].pc \notin {"idle", "done"}}

\* Calls between a successful TryLock and the deferred Unlock.
Holders == {c \in Callers : calls[c].pc \in {"migrate", "drop", "recreate"}}

\* AutoMigrate and DropTable: all tables exist, or none, after a success;
\* a failure leaves the schema as it was or partly changed.
AfterSchemaOp(target, dbOK, partial) ==
  IF dbOK THEN target ELSE IF partial THEN "some" ELSE tables

\* A goroutine calls Initialize, Reset(false) or Reset(true).
BeginCall(c) ==
  \E op \in {"Initialize", "Reset"}, recreateTables \in BOOLEAN :
    /\ calls[c].pc \in {"idle", "done"}
    /\ op = "Initialize" => ~recreateTables
    /\ calls' = [d \in Callers |->
                   IF d = c
                   THEN [NoCall EXCEPT !.op = op, !.recreateTables = recreateTables,
                                       !.pc = "trylock",
                                       !.overlapped = InProgress \ {c} # {}]
                   ELSE IF d \in InProgress THEN [calls[d] EXCEPT !.overlapped = TRUE]
                   ELSE calls[d]]
    /\ UNCHANGED <<initLock, tables, OutsideManager>>

\* if !m.initLock.TryLock() { return "... already in progress" }
TryLockStep(c) ==
  /\ calls[c].pc = "trylock"
  /\ IF TryLock(initLock)
     THEN /\ initLock' = TRUE
          /\ calls' = [calls EXCEPT ![c].pc =
                         IF calls[c].op = "Initialize" THEN "migrate" ELSE "drop"]
     ELSE /\ initLock' = initLock
          /\ calls' = [calls EXCEPT ![c].pc = "done",
                                    ![c].ret = IF calls[c].op = "Initialize"
                                               THEN ErrInitInProgress
                                               ELSE ErrResetInProgress]
  /\ UNCHANGED <<tables, OutsideManager>>

\* Initialize: AutoMigrate, then the deferred Unlock and the return.
Migrate(c) ==
  \E dbOK \in BOOLEAN, partial \in BOOLEAN :
    /\ calls[c].pc = "migrate"
    /\ dbOK => ~partial
    /\ tables' = AfterSchemaOp("all", dbOK, partial)
    /\ initLock' = FALSE
    /\ calls' = [calls EXCEPT ![c].pc = "done",
                              ![c].ret = IF dbOK THEN "nil" ELSE ErrMigrate,
                              ![c].dbFailed = ~dbOK]
    /\ UNCHANGED OutsideManager

\* Reset: DropTable; on an error, or when recreateTables is false, the
\* deferred Unlock and the return.
DropTable(c) ==
  \E dbOK \in BOOLEAN, partial \in BOOLEAN :
    /\ calls[c].pc = "drop"
    /\ dbOK => ~partial
    /\ tables' = AfterSchemaOp("none", dbOK, partial)
    /\ IF dbOK /\ calls[c].recreateTables
       THEN /\ initLock' = initLock
            /\ calls' = [calls EXCEPT ![c].pc = "recreate"]
       ELSE /\ initLock' = FALSE
            /\ calls' = [calls EXCEPT ![c].pc = "done",
                                      ![c].ret = IF dbOK THEN "nil" ELSE ErrDropTables,
                                      ![c].dbFailed = ~dbOK]
    /\ UNCHANGED OutsideManager

\* Reset(true): return m.Initialize(), called while Reset still holds the
\* lock.  Initialize runs its own TryLock on the same mutex; whatever it
\* returns Reset returns, and Reset's deferred Unlock releases the lock.
Recreate(c) ==
  \E dbOK \in BOOLEAN :
    /\ calls[c].pc = "recreate"
    /\ IF TryLock(initLock)
       THEN /\ tables' = AfterSchemaOp("all", dbOK, FALSE)
            /\ calls' = [calls EXCEPT ![c].pc = "done",
                                      ![c].ret = IF dbOK THEN "nil" ELSE ErrMigrate,
                                      ![c].dbFailed = ~dbOK]
       ELSE /\ dbOK
            /\ tables' = tables
            /\ calls' = [calls EXCEPT ![c].pc = "done", ![c].ret = ErrInitInProgress]
    /\ initLock' = FALSE
    /\ UNCHANGED OutsideManager

NextManager ==
  \E c \in Callers :
    \/ BeginCall(c)
    \/ TryLockStep(c)
    \/ Migrate(c)
    \/ DropTable(c)
    \/ Recreate(c)

SpecManager == Init /\ [][NextManager]_vars

\* C23: a Reset(true) that ran with no other Initialize or Reset in progress
\* and whose database operations succeeded has returned nil, and all tables
\* exist when it returns.
C23_ResetRecreates ==
  \A c \in Callers :
    (/\ calls[c].op = "Reset"
     /\ calls[c].recreateTables
     /\ calls[c].pc = "done"
     /\ ~calls[c].overlapped
     /\ ~calls[c].dbFailed
     /\ InProgress = {})
      => (calls[c].ret = "nil" /\ tables = "all")

\* C24: at most one call is between TryLock and Unlock; a call that finds
\* the lock held returns an "already in progress" error in that same step
\* and touches no table; the lock is held exactly while some call is between
\* TryLock and Unlock, so it is free again whenever the holder has returned.
C24_InitLockExcludes ==
  /\ [](Cardinality(Holders) <= 1)
  /\ [](initLock <=> Holders # {})
  /\ [][\A c \in Callers :
          (calls[c].pc = "trylock" /\ calls'[c] # calls[c] /\ initLock) =>
            /\ calls'[c].pc = "done"
            /\ calls'[c].ret \in {ErrInitInProgress, ErrResetInProgress}
            /\ tables' = tables
            /\ initLock' = initLock]_vars

\* C24 witness: a Reset was turned away while another call held the lock,
\* the lock is free again, and an Initialize has succeeded.
C24_Witness ==
  \E c, d \in Callers :
    /\ c # d
    /\ calls[c].pc = "done" /\ calls[c].ret = ErrResetInProgress
    /\ calls[d].pc = "done" /\ calls[d].ret = "nil" /\ calls[d].op = "Initialize"
    /\ ~initLock
    /\ tables = "all"


\* ------------------------------------------------------------ A2A storage
MessageIDs == 1..MaxMessageIDs

\* Rows of the messages table: MessageID is unique; ContextID may be nil.
MessageRow(messageID, contextID) == [MessageID |-> messageID, ContextID |-> contextID]
StoredIDs == {m.MessageID : m \in storedMessages}

\* "Limit history length": the IDs cut off the front of the list, and the
\* IDs that stay.
Removed_none(ids) == {}

Removed(ids) ==
  IF Len(ids) > maxHistoryLength
  THEN {ids[i] : i \in 1..(Len(ids) - maxHistoryLength)}
  ELSE {}

Kept(ids) ==
  IF Len(ids) > maxHistoryLength
  THEN SubSeq(ids, Len(ids) - maxHistoryLength + 1, Len(ids))
  ELSE ids

\* tx.Where("message_id IN ?", removedMsgIDs).Delete(&StoredMessage{})
DeleteMessages(rows, ids) == {m \in rows : m.MessageID \notin ids}

\* GormStorage.StoreMessage, in one transaction: insert the message (the
\* unique index rejects a MessageID that is stored); when it has a context,
\* create the conversation with this one ID, or append the ID to the
\* conversation's list, cut the list to maxHistoryLength and delete the
\* messages cut off.  Any error rolls the transaction back.
StoreMessageTx(messageID, contextID, dbOK) ==
  IF ~dbOK \/ messageID \in StoredIDs
  THEN [err |-> TRUE, messages |-> storedMessages, conversations |-> storedConversations]
  ELSE IF contextID = NilContext
  THEN [err |-> FALSE,
        messages |-> storedMessages \cup {MessageRow(messageID, contextID)},
        conversations |-> storedConversations]
  ELSE IF storedConversations[contextID] = <<>>
  THEN [err |-> FALSE,
        messages |-> storedMessages \cup {MessageRow(messageID, contextID)},
        conversations |-> [storedConversations EXCEPT ![contextID] = <<messageID>>]]
  ELSE LET messageIDs == Append(storedConversations[contextID], messageID) IN
       [err |-> FALSE,
        messages |-> DeleteMessages(storedMessages \cup {MessageRow(messageID, contextID)},
                                    Removed(messageIDs)),
        conversations |-> [storedConversations EXCEPT ![contextID] = Kept(messageIDs)]]

\* The later StoreMessage: in the branch for an existing conversation the
\* list is taken from the row as it is (messageIDs := conversation.MessageIDs),
\* cut and saved; the new ID is not appended.
StoreMessageTxLater(messageID, contextID, dbOK) ==
  IF ~dbOK \/ messageID \in StoredIDs
  THEN [err |-> TRUE, messages |-> storedMessages, conversations |-> storedConversations]
  ELSE IF contextID = NilContext
  THEN [err |-> FALSE,
        messages |-> storedMessages \cup {MessageRow(messageID, contextID)},
        conversations |-> storedConversations]
  ELSE IF storedConversations[contextID] = <<>>
  THEN [err |-> FALSE,
        messages |-> storedMessages \cup {MessageRow(messageID, contextID)},
        conversations |-> [storedConversations EXCEPT ![contextID] = <<messageID>>]]
  ELSE LET messageIDs == storedConversations[contextID] IN
       [err |-> FALSE,
        messages |-> DeleteMessages(storedMessages \cup {MessageRow(messageID, contextID)},
                                    Removed(messageIDs)),
        conversations |-> [storedConversations EXCEPT ![contextID] = Kept(messageIDs)]]

\* How many StoreMessage calls have succeeded for a context.
StoresDone == Len(storeLog["c1"]) + Len(storeLog["c2"])

\* The effect of one StoreMessage call with the given outcome.
StoreApplied(messageID, contextID, out) ==
  /\ storedMessages' = out.messages
  /\ storedConversations' = out.conversations
  /\ storeLog' = IF ~out.err /\ contextID # NilContext
                 THEN [storeLog EXCEPT ![contextID] = Append(@, messageID)]
                 ELSE storeLog
  /\ storeLast' = [op |-> "StoreMessage", MessageID |-> messageID,
                   ContextID |-> contextID, err |-> out.err]

GormStoreMessage ==
  \E messageID \in MessageIDs, contextID \in ContextIDs \cup {NilContext}, dbOK \in BOOLEAN :
    /\ StoresDone < MaxStores
    /\ StoreApplied(messageID, contextID, StoreMessageTx(messageID, contextID, dbOK))
    /\ UNCHANGED OutsideStorage

GormStoreMessageLater ==
  \E messageID \in MessageIDs, contextID \in ContextIDs \cup {NilContext}, dbOK \in BOOLEAN :
    /\ StoresDone < MaxStores
    /\ StoreApplied(messageID, contextID, StoreMessageTxLater(messageID, contextID, dbOK))
    /\ UNCHANGED OutsideStorage

\* GetMessage: the row with this message_id, or "message not found".
GetMessageFinds(messageID) == \E m \in storedMessages : m.MessageID = messageID

\* GetConversation: the conversation's message-ID list.
GetConversation(contextID) == storedConversations[contextID]

\* The earlier storage, and the later one.
NextStorage == GormStoreMessage
SpecStorage == Init /\ [][NextStorage]_vars

NextStorageLater == GormStoreMessageLater
SpecStorageLater == Init /\ [][NextStorageLater]_vars

\* The last n entries of a sequence.
LastN(seq, n) == IF Len(seq) > n THEN SubSeq(seq, Len(seq) - n + 1, Len(seq)) ELSE seq

\* C25: every conversation's list holds at most maxHistoryLength IDs, they
\* are the IDs most recently stored for the context in the order stored, and
\* after a successful StoreMessage with a context the new ID is the last
\* entry of that context's list.
C25_HistoryBounded ==
  /\ \A c \in ContextIDs :
       /\ Len(GetConversation(c)) <= maxHistoryLength
       /\ GetConversation(c) = LastN(storeLog[c], maxHistoryLength)
  /\ (storeLast.op = "StoreMessage" /\ ~storeLast.err /\ storeLast.ContextID # NilContext)
       => /\ GetConversation(storeLast.ContextID) # <<>>
          /\ GetConversation(storeLast.ContextID)[Len(GetConversation(storeLast.ContextID))]
               = storeLast.MessageID

\* C26: every ID in a conversation's list is found by GetMessage, and every
\* stored message that has a context is in that context's list, so a message
\* cut from a list is no longer stored.
C26_NoDanglingNoOrphans ==
  /\ \A c \in ContextIDs :
       \A i \in DOMAIN GetConversation(c) : GetMessageFinds(GetConversation(c)[i])
  /\ \A m \in storedMessages :
       m.ContextID # NilContext =>
         \E i \in DOMAIN GetConversation(m.ContextID) :
           GetConversation(m.ContextID)[i] = m.MessageID

\* C26 witness: a conversation that was cut: more IDs were stored for it
\* than it lists, and the first ID stored is no longer in storage.
C26_Witness ==
  \E c \in ContextIDs :
    /\ Len(storeLog[c]) > maxHistoryLength
    /\ Len(GetConversation(c)) = maxHistoryLength
    /\ storeLog[c][1] \notin StoredIDs


\* ---------------------------------------------------------------------
\* Database client: RefreshToolsForServer and ListToolsForServer
\* ---------------------------------------------------------------------

MaxComponents == 2
MaxRefreshTools == 2

\* Tool names, server names ("" is the zero value of the string column) and
\* component payloads.
ToolNames == {"t1", "t2"}
ServerNames == {"", "s1"}
Components == 1..MaxComponents

\* The (name, component) pairs handed to RefreshToolsForServer.
NamedTools == [Name : ToolNames, Component : Components]
NamedToolLists ==
  UNION {[1..n -> NamedTools] : n \in 0..MaxRefreshTools}

\* Tool.Create: the name column is unique over every row of the table, the
\* soft-deleted ones included; the row keeps the fields of the model given.
ToolNameInUse(rows, name) == \E i \in DOMAIN rows : rows[i].Name = name

ToolCreate(rows, name, component, serverName) ==
  IF ToolNameInUse(rows, name)
  THEN [rows |-> rows, err |-> TRUE]
  ELSE [rows |-> Append(rows, [ID |-> Len(rows) + 1, Name |-> name,
                               Component |-> component,
                               ServerName |-> serverName, Deleted |-> FALSE]),
        err |-> FALSE]

\* Tool.Update: Save of the row read before, with its new component.
ToolUpdate(rows, existing, component) ==
  [i \in DOMAIN rows |->
     IF rows[i].ID = existing.ID
     THEN [existing EXCEPT !.Component = component]
     ELSE rows[i]]

\* Tool.Delete(Clause{"name", name}): soft delete of the live rows of the name.
ToolDelete(rows, name) ==
  [i \in DOMAIN rows |->
     IF rows[i].Name = name /\ ~rows[i].Deleted
     THEN [rows[i] EXCEPT !.Deleted = TRUE]
     ELSE rows[i]]

\* ListToolsForServer: the live rows whose server_name column is serverName
\* (names are unique, so the order of the listing decides nothing here).
ListToolsForServer(rows, serverName) ==
  {rows[i] : i \in {j \in DOMAIN rows :
                      ~rows[j].Deleted /\ rows[j].ServerName = serverName}}

\* First loop of RefreshToolsForServer: update the tools found in the
\* listing read at the start, create the others from Name and Component only.
RECURSIVE RefreshUpsert(_, _, _, _)
RefreshUpsert(rows, existingTools, ts, i) ==
  IF i > Len(ts) THEN [rows |-> rows, err |-> FALSE]
  ELSE IF \E e \in existingTools : e.Name = ts[i].Name
  THEN LET e == CHOOSE e \in existingTools : e.Name = ts[i].Name
       IN RefreshUpsert(ToolUpdate(rows, e, ts[i].Component), existingTools, ts, i + 1)
  ELSE LET created == ToolCreate(rows, ts[i].Name, ts[i].Component, "")
       IN IF created.err THEN created
          ELSE RefreshUpsert(created.rows, existingTools, ts, i + 1)

\* Second loop: delete the listed tools whose name is not among the new ones.
RECURSIVE RefreshDelete(_, _, _)
RefreshDelete(rows, toDelete, ts) ==
  IF toDelete = {} THEN rows
  ELSE LET e == CHOOSE e \in toDelete : TRUE
       IN RefreshDelete(ToolDelete(rows, e.Name), toDelete \ {e}, ts)

RefreshToolsForServer(rows, serverName, ts, dbOK) ==
  IF ~dbOK THEN [rows |-> rows, err |-> TRUE]
  ELSE LET existingTools == ListToolsForServer(rows, serverName)
           upserted == RefreshUpsert(rows, existingTools, ts, 1)
       IN IF upserted.err THEN upserted
          ELSE [rows |-> RefreshDelete(upserted.rows,
                           {e \in existingTools :
                              ~\E i \in DOMAIN ts : ts[i].Name = e.Name}, ts),
                err |-> FALSE]

\* CreateTool(tool): a caller stores a tool with the server name it chose.
CreateTool ==
  \E name \in ToolNames, component \in Components, serverName \in ServerNames :
    LET out == ToolCreate(toolRows, name, component, serverName)
    IN /\ toolRows' = out.rows
       /\ refreshLast' = [op |-> "CreateTool", serverName |-> serverName,
                          tools |-> <<[Name |-> name, Component |-> component]>>,
                          err |-> out.err]
       /\ UNCHANGED OutsideRefresh

RefreshToolsForServerCall ==
  \E serverName \in ServerNames, ts \in NamedToolLists, dbOK \in BOOLEAN :
    LET out == RefreshToolsForServer(toolRows, serverName, ts, dbOK)
    IN /\ toolRows' = out.rows
       /\ refreshLast' = [op |-> "RefreshToolsForServer", serverName |-> serverName,
                          tools |-> ts, err |-> out.err]
       /\ UNCHANGED OutsideRefresh

NextRefresh == CreateTool \/ RefreshToolsForServerCall

SpecRefresh == Init /\ [][NextRefresh]_vars

\* C27: after RefreshToolsForServer(server, tools) has returned nil,
\* ListToolsForServer(server) holds exactly one tool for each name given and
\* no other, each with the component given last for its name.
C27_RefreshedListing ==
  (refreshLast.op = "RefreshToolsForServer" /\ ~refreshLast.err) =>
    LET listed == ListToolsForServer(toolRows, refreshLast.serverName)
        ts == refreshLast.tools
    IN /\ {r.Name : r \in listed} = {ts[i].Name : i \in DOMAIN ts}
       /\ Cardinality(listed) = Cardinality({ts[i].Name : i \in DOMAIN ts})
       /\ \A i \in DOMAIN ts :
            (\A j \in DOMAIN ts : j > i => ts[j].Name # ts[i].Name) =>
              \E r \in listed : r.Name = ts[i].Name /\ r.Component = ts[i].Component


\* ---------------------------------------------------------------------
\* Concurrent invoke requests
\* ---------------------------------------------------------------------

\* Requests whose run is inserted and whose external call has not returned.
InFlight == {r \in InvokeIDs : inv[r].pc \in {"run_created", "calling"}}

\* The request whose external call returns in this step.
Finishing(r) == inv[r].pc = "calling" /\ inv'[r].pc = "idle"

\* C28: concurrent invoke requests keep to their own run.  Two requests in
\* flight hold runs with different keys; the row of a request in flight is
\* exactly the run that request inserted, whatever the other requests did in
\* the meantime; the row of the request just answered carries that request's
\* own session, user, status, error message and result, or is still the
\* inserted run when its update failed; and a step changes no row of the
\* runs table other than the row of the request whose call returns in it.
C28_NoCrossedUpdates ==
  /\ [](\A r, q \in InFlight : r # q => inv[r].run.ID # inv[q].run.ID)
  /\ [](\A r \in InFlight :
          /\ inv[r].run.Task = {<<"content", TaskOf(r)>>, <<"source", "user">>}
          /\ \A i \in RowsOf(runs, inv[r].run.ID) : runs[i] = inv[r].run)
  /\ [](InvokeReturned =>
          \A i \in RowsOf(runs, last.runID) :
            /\ runs[i].SessionID = last.sessionID
            /\ runs[i].UserID = last.userID
            /\ runs[i].Status =
                 IF ~last.saved THEN RunStatusCreated
                 ELSE IF last.failed THEN RunStatusError ELSE RunStatusComplete
            /\ runs[i].ErrorMessage =
                 IF last.saved /\ last.failed THEN last.err ELSE NilString
            /\ runs[i].TeamResult =
                 IF last.saved /\ ~last.failed /\ ~last.result.IsNil
                 THEN {<<"usage", last.result.Usage>>, <<"duration", last.result.Duration>>}
                 ELSE EmptyJSONMap)
  /\ [][\A i \in DOMAIN runs :
          runs'[i] # runs[i] =>
            \E r \in InvokeIDs : Finishing(r) /\ runs[i].ID = inv[r].run.ID]_vars

\* C28 witness: a request on a session has just been answered with its run
\* updated while another request on the same session, whose run was
\* inserted before that update, is still waiting for its external call.
C28_Witness ==
  /\ InvokeReturned /\ last.saved
  /\ \E q \in InvokeIDs :
       /\ inv[q].pc = "calling"
       /\ inv[q].sessionID = last.sessionID
       /\ inv[q].run.ID # last.runID
       /\ RowsOf(runs, inv[q].run.ID) # {}


\* ---------------------------------------------------------------------
\* A2A task handlers built by makeHandlerForTeam
\* ---------------------------------------------------------------------

MaxTaskMessages == 2
MaxTaskCalls == 2

\* Inputs of a handler call: the task text and the optional session ID
\* ("<nil>" is the nil pointer).
TaskTexts == {"task1", "task2"}
TaskSessionIDs == {"<nil>", "", "s1"}

\* msg["content"] of a message of the task result: a string, or another JSON
\* value given with the text json.Marshal produces for it.
MessageContents ==
  {[isString |-> TRUE, text |-> "hello"], [isString |-> TRUE, text |-> "done"],
   [isString |-> FALSE, text |-> "{\"n\":1}"]}
TaskMessages == UNION {[1..n -> MessageContents] : n \in 0..MaxTaskMessages}

\* The loop over taskResult.Messages: the content of the last message, a
\* string as it is and anything else as its JSON text.
RECURSIVE LastMessageContent(_, _, _)
LastMessageContent(msgs, i, lastMessageContent) ==
  IF i > Len(msgs) THEN lastMessageContent
  ELSE LastMessageContent(msgs, i + 1, msgs[i].text)

\* The handler with a session ID parameter: what it returns for the outcome
\* of Session.Get (used only with a non-empty session ID) and of InvokeTask.
SessionTaskHandler(task, sessionID, getOK, invokeOK, msgs) ==
  LET withSession == sessionID # "<nil>" /\ sessionID # ""
  IN IF withSession /\ ~getOK
     THEN [NoTask EXCEPT !.handler = "session", !.task = task, !.sessionID = sessionID,
                         !.err = "failed to get session"]
     ELSE IF ~invokeOK
     THEN [NoTask EXCEPT !.handler = "session", !.task = task, !.sessionID = sessionID,
                         !.invoked = TRUE, !.invokeFailed = TRUE,
                         !.err = "failed to invoke task"]
     ELSE [NoTask EXCEPT !.handler = "session", !.task = task, !.sessionID = sessionID,
                         !.invoked = TRUE,
                         !.out = LastMessageContent(msgs, 1, "")]

\* resp.Data of the handler without sessions, with the text json.Marshal
\* produces for it.
TaskData == {[text |-> "null"], [text |-> "\"answer\""]}

\* The handler without a session ID parameter: an error of InvokeTask is
\* answered with ("", nil), a response with Status false with an error, and
\* a response with Status true with the JSON text of its data and the error
\* of json.Marshal.
TeamTaskHandler(task, invokeOK, status, data, marshalOK) ==
  IF ~invokeOK
  THEN [NoTask EXCEPT !.handler = "team", !.task = task, !.invoked = TRUE,
                      !.invokeFailed = TRUE]
  ELSE IF ~status
  THEN [NoTask EXCEPT !.handler = "team", !.task = task, !.invoked = TRUE,
                      !.err = "failed to invoke task"]
  ELSE [NoTask EXCEPT !.handler = "team", !.task = task, !.invoked = TRUE,
                      !.out = IF marshalOK THEN data.text ELSE "",
                      !.err = IF marshalOK THEN "<nil>" ELSE "json: unsupported type"]

CallSessionTaskHandler ==
  \E task \in TaskTexts, sessionID \in TaskSessionIDs, getOK \in BOOLEAN,
     invokeOK \in BOOLEAN, msgs \in TaskMessages :
    /\ Len(invokeTasks) < MaxTaskCalls
    /\ a2aLast' = SessionTaskHandler(task, sessionID, getOK, invokeOK, msgs)
    /\ invokeTasks' = IF a2aLast'.invoked THEN Append(invokeTasks, task) ELSE invokeTasks
    /\ UNCHANGED OutsideA2A

CallTeamTaskHandler ==
  \E task \in TaskTexts, invokeOK \in BOOLEAN, status \in BOOLEAN,
     data \in TaskData, marshalOK \in BOOLEAN :
    /\ Len(invokeTasks) < MaxTaskCalls
    /\ a2aLast' = TeamTaskHandler(task, invokeOK, status, data, marshalOK)
    /\ invokeTasks' = Append(invokeTasks, task)
    /\ UNCHANGED OutsideA2A

\* invokeTasks lists the tasks handed to InvokeTask so far.
NextA2A == CallSessionTaskHandler \/ CallTeamTaskHandler

SpecA2A == Init /\ [][NextA2A]_vars

\* C29: a task handler built by makeHandlerForTeam whose InvokeTask call
\* failed returns a non-nil error.
C29_InvokeErrorReturned ==
  (a2aLast.invoked /\ a2aLast.invokeFailed) => a2aLast.err # "<nil>"


\* ---------------------------------------------------------------------
\* kagent CLI: runTask and waitForTaskResult
\* ---------------------------------------------------------------------

MaxPolls == 3

\* States of the task at the A2A server; the first two are the ones
\* waitForTaskResult keeps polling on.
TaskStateSubmitted == "submitted"
TaskStateWorking == "working"
TaskStates == {TaskStateSubmitted, TaskStateWorking, "input-required", "completed", "failed"}

\* The switch on task.Status.State.
IsPending_submittedOnly(state) == state = TaskStateSubmitted

IsPending(state) == state \in {TaskStateSubmitted, TaskStateWorking}

\* ctx.Err() for the state of the context.
CtxErr(c) ==
  IF c = "cancelled" THEN "context canceled"
  ELSE IF c = "timedout" THEN "context deadline exceeded"
  ELSE "<nil>"

\* runTask: SendTasks, then the wait under a context with the timeout.
RunTask ==
  /\ waitPc = "idle"
  /\ \E sendOK \in BOOLEAN :
       IF sendOK
       THEN /\ waitPc' = "select"
            /\ taskState' = TaskStateSubmitted
            /\ waitRet' = NoReturn
       ELSE /\ waitPc' = "returned"
            /\ taskState' = taskState
            /\ waitRet' = [task |-> "<nil>", err |-> "send tasks failed"]
  /\ UNCHANGED <<waitCtx, polls, OutsideWait>>

\* The agent works on the task.
TaskProgress ==
  /\ waitPc = "select"
  /\ IsPending(taskState)
  /\ \E next \in TaskStates :
       /\ next # TaskStateSubmitted
       /\ next # taskState
       /\ taskState' = next
  /\ UNCHANGED <<waitPc, waitCtx, polls, waitRet, OutsideWait>>

\* The caller's context is cancelled.
CancelContext ==
  /\ waitPc = "select"
  /\ waitCtx = "live"
  /\ waitCtx' = "cancelled"
  /\ UNCHANGED <<waitPc, taskState, polls, waitRet, OutsideWait>>

\* The timeout of context.WithTimeout elapses.
TimeoutElapses ==
  /\ waitPc = "select"
  /\ waitCtx = "live"
  /\ waitCtx' = "timedout"
  /\ UNCHANGED <<waitPc, taskState, polls, waitRet, OutsideWait>>

\* case <-ticker.C: GetTasks under ctx; its error is returned, a task that
\* is submitted or working sends the loop round again, any other task is
\* returned.  A request under an ended context fails with that context's
\* error.
TickerCase ==
  /\ waitPc = "select"
  /\ \E getOK \in BOOLEAN :
       IF waitCtx # "live"
       THEN /\ waitPc' = "returned"
            /\ waitRet' = [task |-> "<nil>", err |-> CtxErr(waitCtx)]
            /\ polls' = polls
       ELSE IF ~getOK
       THEN /\ waitPc' = "returned"
            /\ waitRet' = [task |-> "<nil>", err |-> "get tasks failed"]
            /\ polls' = polls
       ELSE IF IsPending(taskState)
       THEN /\ polls < MaxPolls
            /\ waitPc' = waitPc
            /\ waitRet' = waitRet
            /\ polls' = polls + 1
       ELSE /\ waitPc' = "returned"
            /\ waitRet' = [task |-> taskState, err |-> "<nil>"]
            /\ polls' = polls
  /\ UNCHANGED <<waitCtx, taskState, OutsideWait>>

\* case <-ctx.Done(): return nil, ctx.Err()
DoneCase ==
  /\ waitPc = "select"
  /\ waitCtx # "live"
  /\ waitPc' = "returned"
  /\ waitRet' = [task |-> "<nil>", err |-> CtxErr(waitCtx)]
  /\ UNCHANGED <<waitCtx, taskState, polls, OutsideWait>>

NextWait == RunTask \/ TaskProgress \/ CancelContext \/ TimeoutElapses \/ TickerCase \/ DoneCase

SpecWait == Init /\ [][NextWait]_vars

\* The timeout is finite, and a select whose Done case stays ready takes it
\* in the end.
SpecWaitFair == SpecWait /\ WF_vars(TimeoutElapses) /\ WF_vars(DoneCase)

\* The wait ends in this step.
WaitReturns == waitPc = "select" /\ waitPc' = "returned"

\* C30 as stated: the wait ends only with a task that is neither submitted
\* nor working, or with the error of the ended context.
C30_Original ==
  [][WaitReturns =>
       \/ waitRet'.task \notin {"<nil>", "submitted", "working"}
       \/ waitCtx # "live" /\ waitRet'.err = CtxErr(waitCtx)]_vars

\* C30: waitForTaskResult returns a task only when the task is neither
\* submitted nor working, and then with a nil error; it returns no task and
\* the context's error only when the context is cancelled or timed out; the
\* wait ends only with such a task, with the context ended, or with the
\* error of a failed GetTasks call, and otherwise goes on polling; and with
\* a finite timeout every wait ends.
C30_WaitTerminates ==
  /\ [](waitPc = "returned" /\ waitRet.task # "<nil>" =>
          /\ waitRet.task \notin {"submitted", "working"}
          /\ waitRet.task = taskState
          /\ waitRet.err = "<nil>")
  /\ [](waitPc = "returned" /\ waitRet.task = "<nil>" =>
          /\ waitRet.err # "<nil>"
          /\ waitRet.err = "context canceled" => waitCtx = "cancelled"
          /\ waitRet.err = "context deadline exceeded" => waitCtx = "timedout")
  /\ [][WaitReturns =>
          \/ waitRet'.task \notin {"<nil>", "submitted", "working"}
          \/ waitCtx # "live" /\ waitRet'.err = CtxErr(waitCtx)
          \/ waitCtx = "live" /\ waitRet'.err = "get tasks failed"]_vars
  /\ (waitPc = "select") ~> (waitPc = "returned")

\* C30 witness: the wait polled a task that stayed in progress and was ended
\* by the timeout with the context's error.
C30_Witness ==
  /\ waitPc = "returned"
  /\ polls > 0
  /\ taskState = "working"
  /\ waitRet = [task |-> "<nil>", err |-> "context deadline exceeded"]

====
